---------------------------- MODULE Spec2Model ----------------------------
(***************************************************************************)
(* wrist-watch: a wrapper around the JavaScript Date with calendar         *)
(* arithmetic, comparison, token formatting and token parsing.             *)
(*                                                                         *)
(* Numbers.  A JavaScript time value is a count of milliseconds that does  *)
(* not fit TLC's 32-bit integers, so a number is kept as a normalised pair *)
(* [d, ms] standing for d * 86400000 + ms with 0 <= ms < 86400000, or as   *)
(* the value NaN.  All arithmetic below is exact integer arithmetic on     *)
(* that pair (every product the code forms stays below 2^53, where the     *)
(* IEEE doubles of the code are exact as well).                            *)
(*                                                                         *)
(* Host.  Date is the ECMAScript Date: new Date(t) applies TimeClip        *)
(* (|t| <= 8.64e15, else Invalid Date), the getters decompose local time   *)
(* in the proleptic Gregorian calendar, the setters rebuild the time value *)
(* with MakeDay/MakeDate.  The host zone has a fixed offset from UTC,      *)
(* tzOffset minutes, chosen in the initial state; when dst holds the zone   *)
(* also observes daylight saving time in 2024 (one hour, from 02:00 on     *)
(* March 10 to 02:00 on November 3, local time).                           *)
(***************************************************************************)
EXTENDS Integers, Sequences, FiniteSets, TLC

VARIABLES
    tzOffset,    \* host zone: minutes east of UTC (standard time)
    dst,         \* host zone: whether it observes daylight saving time
    pc,          \* position of the running scenario
    original,    \* arithmetic: the Date the scenario starts from
    amount,      \* arithmetic: the amount argument
    unit,        \* arithmetic: the TimeUnit argument
    added,       \* arithmetic: add(original, amount, unit)
    roundTrip,   \* arithmetic: subtract(added, amount, unit)
    now,         \* host clock: the value of new Date()
    fmtDate,     \* formatting: the Date to format
    pattern,     \* formatting and parsing: the pattern string
    formatted,   \* formatting: format(fmtDate, pattern)
    parseInput,  \* parsing: the input string
    parsed,      \* parsing: parseCustom(parseInput, pattern)
    heap,        \* objects: the time value of every Date object, by reference
    watches,     \* objects: the private date reference of every WristWatch
    born,        \* objects: getTimestamp() of every WristWatch when constructed
    held,        \* objects: the references to Date objects the caller holds
    last,        \* objects: the last call on a WristWatch and what it returned
    fn,          \* calls: the function a caller calls
    arg,         \* calls: the input of a parsing function, of any type
    fmtArg,      \* calls: the format argument of parseCustom, of any type
    dateA,       \* calls: the first Date argument
    dateB,       \* calls: the second Date argument
    answer       \* calls: what the function returned

arithVars == <<original, amount, unit, added, roundTrip>>
fmtVars   == <<now, fmtDate, pattern, formatted, parseInput, parsed>>

objVars   == <<heap, watches, born, held, last>>

callVars  == <<fn, arg, fmtArg, dateA, dateB, answer>>

vars == <<tzOffset, dst, pc, arithVars, fmtVars, objVars, callVars>>

---------------------------------------------------------------------------
(* Bounds of the model *)

\* amounts run over -MaxAmount .. MaxAmount (and the extremes -100, 100)
MaxAmount == 13

\* generated patterns hold 1 .. MaxTokens tokens
MaxTokens == 2

\* at most MaxHeap Date objects are allocated
MaxHeap == 3

---------------------------------------------------------------------------
(* Numbers and the host Date *)

MsPerDay == 86400000

\* TimeClip: a time value is valid up to 100,000,000 days either side of the epoch
MaxDateDays == 100000000

NaN == [nan |-> TRUE, d |-> 0, ms |-> 0]

\* the number d * MsPerDay + m, normalised
Num(d, m) == [nan |-> FALSE, d |-> d + (m \div MsPerDay), ms |-> m % MsPerDay]

IsNaN(a) == a.nan

\* a + b
NumAdd(a, b) ==
    IF a.nan \/ b.nan THEN NaN ELSE Num(a.d + b.d, a.ms + b.ms)

\* a - b
NumSub(a, b) ==
    IF a.nan \/ b.nan THEN NaN ELSE Num(a.d - b.d, a.ms - b.ms)

\* n * len for an integer n and a unit length len
NumScale(n, len) ==
    IF len.nan THEN NaN ELSE Num(n * len.d, n * len.ms)

\* a < b, a > b, a === b on numbers (every comparison with NaN is false)
NumLt(a, b) == ~a.nan /\ ~b.nan /\ (a.d < b.d \/ (a.d = b.d /\ a.ms < b.ms))
NumGt(a, b) == NumLt(b, a)
NumEq(a, b) == ~a.nan /\ ~b.nan /\ a.d = b.d /\ a.ms = b.ms
NumLe(a, b) == NumLt(a, b) \/ NumEq(a, b)
NumGe(a, b) == NumLe(b, a)

\* new Date(t): TimeClip
NewDate(t) ==
    IF t.nan THEN NaN
    ELSE IF t.d < -MaxDateDays \/ t.d > MaxDateDays
            \/ (t.d = MaxDateDays /\ t.ms > 0)
         THEN NaN
         ELSE t

\* days since the epoch of the civil date y-m-d (m in 1..12, any d)
DaysFromCivil(y, m, d) ==
    LET yy  == IF m <= 2 THEN y - 1 ELSE y
        era == yy \div 400
        yoe == yy - era * 400
        mp  == IF m > 2 THEN m - 3 ELSE m + 9
        doy == (153 * mp + 2) \div 5 + d - 1
        doe == yoe * 365 + (yoe \div 4) - (yoe \div 100) + doy
    IN  era * 146097 + doe - 719468

\* the civil date of a day number: [year, month (1..12), day]
CivilFromDays(z0) ==
    LET z   == z0 + 719468
        era == z \div 146097
        doe == z - era * 146097
        yoe == (doe - (doe \div 1460) + (doe \div 36524) - (doe \div 146096)) \div 365
        doy == doe - (365 * yoe + (yoe \div 4) - (yoe \div 100))
        mp  == (5 * doy + 2) \div 153
        dd  == doy - ((153 * mp + 2) \div 5) + 1
        mm  == IF mp < 10 THEN mp + 3 ELSE mp - 9
    IN  [year |-> yoe + era * 400 + (IF mm <= 2 THEN 1 ELSE 0), month |-> mm, day |-> dd]

\* LocalTime(t) and UTC(t) of the host zone
\* daylight saving time of 2024: the first and the last day, MsPerHour
DstFirstDay == DaysFromCivil(2024, 3, 10)
DstLastDay  == DaysFromCivil(2024, 11, 3)
MsPerHour == 3600000

\* whether daylight saving time is in effect at the time value t
InDst(t) ==
    LET standard == Num(t.d, t.ms + tzOffset * 60000)
    IN  /\ dst
        /\ NumGe(standard, Num(DstFirstDay, 2 * MsPerHour))
        /\ NumLt(standard, Num(DstLastDay, 1 * MsPerHour))

LocalTime(t) ==
    IF t.nan THEN NaN
    ELSE Num(t.d, t.ms + tzOffset * 60000 + (IF InDst(t) THEN MsPerHour ELSE 0))

\* a local time that is skipped or repeated is read with the offset in
\* effect before the transition
UTC(t) ==
    IF t.nan THEN NaN
    ELSE LET daylight == /\ dst
                         /\ NumGe(t, Num(DstFirstDay, 3 * MsPerHour))
                         /\ NumLt(t, Num(DstLastDay, 2 * MsPerHour))
         IN  Num(t.d, t.ms - tzOffset * 60000 - (IF daylight THEN MsPerHour ELSE 0))

\* the getters of a valid Date (local time)
GetFullYear(t) == CivilFromDays(LocalTime(t).d).year
GetMonth(t)    == CivilFromDays(LocalTime(t).d).month - 1
GetDate(t)     == CivilFromDays(LocalTime(t).d).day
GetDay(t)      == (LocalTime(t).d + 4) % 7
GetHours(t)    == LocalTime(t).ms \div 3600000
GetMinutes(t)  == (LocalTime(t).ms \div 60000) % 60
GetSeconds(t)  == (LocalTime(t).ms \div 1000) % 60
GetMilliseconds(t) == LocalTime(t).ms % 1000

\* MakeDay(year, month, date) with a 0-based month of any size
MakeDay(year, month, date) ==
    DaysFromCivil(year + (month \div 12), (month % 12) + 1, 1) + date - 1

\* new Date(year, monthIndex, day, hours, minutes, seconds, ms), local time
\* (a year 0..99 means 1900 + year)
DateFromFields(year, month, day, hours, minutes, seconds, millis) ==
    LET yr == IF year >= 0 /\ year <= 99 THEN 1900 + year ELSE year
    IN  NewDate(UTC(Num(MakeDay(yr, month, day),
                        hours * 3600000 + minutes * 60000 + seconds * 1000 + millis)))

\* date.setMonth(month)
SetMonth(t, month) ==
    IF t.nan THEN NaN
    ELSE NewDate(UTC(Num(MakeDay(GetFullYear(t), month, GetDate(t)), LocalTime(t).ms)))

\* date.setDate(date)
SetDate(t, date) ==
    IF t.nan THEN NaN
    ELSE NewDate(UTC(Num(MakeDay(GetFullYear(t), GetMonth(t), date), LocalTime(t).ms)))

\* date.setFullYear(year); the year argument of an Invalid Date is NaN
SetFullYear(t, year) ==
    IF t.nan THEN NaN
    ELSE NewDate(UTC(Num(MakeDay(year, GetMonth(t), GetDate(t)), LocalTime(t).ms)))

---------------------------------------------------------------------------
(* operations/arithmetic: add, subtract *)

TimeUnits == {"millisecond", "second", "minute", "hour", "day", "week", "month", "year"}
FixedUnits == {"millisecond", "second", "minute", "hour", "day", "week"}

\* setMonth alone, without the clamp to the last day of the month
AddMonthNoClamp(date, amt) ==
    LET result == NewDate(date)
    IN  IF result.nan THEN NaN ELSE SetMonth(result, GetMonth(result) + amt)

\* the clamp applied without the test that the day changed
AddMonthAlwaysClamp(date, amt) ==
    LET result == NewDate(date)
        moved  == IF result.nan THEN NaN ELSE SetMonth(result, GetMonth(result) + amt)
    IN  IF moved.nan THEN NaN ELSE SetDate(moved, 0)

AddMonth(date, amt) ==
    LET result     == NewDate(date)
        currentDay == IF result.nan THEN -1 ELSE GetDate(result)
        moved      == IF result.nan THEN NaN ELSE SetMonth(result, GetMonth(result) + amt)
    IN  IF moved.nan THEN NaN
        ELSE IF GetDate(moved) # currentDay THEN SetDate(moved, 0) ELSE moved

AddYear(date, amt) ==
    LET result == NewDate(date)
    IN  IF result.nan THEN NaN ELSE SetFullYear(result, GetFullYear(result) + amt)

add(date, amt, u) ==
    LET timestamp == date
    IN  CASE u = "millisecond" -> NewDate(NumAdd(timestamp, NumScale(amt, Num(0, 1))))
          [] u = "second"      -> NewDate(NumAdd(timestamp, NumScale(amt, Num(0, 1000))))
          [] u = "minute"      -> NewDate(NumAdd(timestamp, NumScale(amt, Num(0, 1000 * 60))))
          [] u = "hour"        -> NewDate(NumAdd(timestamp, NumScale(amt, Num(0, 1000 * 60 * 60))))
          [] u = "day"         -> NewDate(NumAdd(timestamp, NumScale(amt, Num(0, 1000 * 60 * 60 * 24))))
          [] u = "week"        -> NewDate(NumAdd(timestamp, NumScale(amt, Num(0, 1000 * 60 * 60 * 24 * 7))))
          [] u = "month"       -> AddMonth(date, amt)
          [] u = "year"        -> AddYear(date, amt)

\* subtract that passes the amount on without negating it
SubtractNoNegate(date, amt, u) == add(date, amt, u)

subtract(date, amt, u) == add(date, -amt, u)

---------------------------------------------------------------------------
(* Strings: a string is a sequence of one-character strings *)

DigitChars == <<"0", "1", "2", "3", "4", "5", "6", "7", "8", "9">>

\* String(n) of a non-negative integer
RECURSIVE NatToStr(_)
NatToStr(n) ==
    IF n < 10 THEN <<DigitChars[n + 1]>>
    ELSE NatToStr(n \div 10) \o <<DigitChars[(n % 10) + 1]>>

\* String(n) of an integer
IntToStr(n) == IF n < 0 THEN <<"-">> \o NatToStr(-n) ELSE NatToStr(n)

\* s.padStart(length, '0')
RECURSIVE PadStart(_, _)
PadStart(s, length) ==
    IF Len(s) >= length THEN s ELSE PadStart(<<"0">> \o s, length)

\* a % b of JavaScript: the remainder takes the sign of the dividend
JsRem(a, b) == IF a < 0 THEN -((-a) % b) ELSE a % b

\* pattern.substring(i, i + token.length) === token, for a 1-based index i
StartsWithAt(s, i, token) ==
    /\ i + Len(token) - 1 <= Len(s)
    /\ \A k \in 1..Len(token) : s[i + k - 1] = token[k]

---------------------------------------------------------------------------
(* operations/formatting: format *)

MONTH_NAMES ==
    << <<"J", "a", "n", "u", "a", "r", "y">>,
       <<"F", "e", "b", "r", "u", "a", "r", "y">>,
       <<"M", "a", "r", "c", "h">>,
       <<"A", "p", "r", "i", "l">>,
       <<"M", "a", "y">>,
       <<"J", "u", "n", "e">>,
       <<"J", "u", "l", "y">>,
       <<"A", "u", "g", "u", "s", "t">>,
       <<"S", "e", "p", "t", "e", "m", "b", "e", "r">>,
       <<"O", "c", "t", "o", "b", "e", "r">>,
       <<"N", "o", "v", "e", "m", "b", "e", "r">>,
       <<"D", "e", "c", "e", "m", "b", "e", "r">> >>

MONTH_NAMES_SHORT ==
    << <<"J", "a", "n">>,
       <<"F", "e", "b">>,
       <<"M", "a", "r">>,
       <<"A", "p", "r">>,
       <<"M", "a", "y">>,
       <<"J", "u", "n">>,
       <<"J", "u", "l">>,
       <<"A", "u", "g">>,
       <<"S", "e", "p">>,
       <<"O", "c", "t">>,
       <<"N", "o", "v">>,
       <<"D", "e", "c">> >>

DAY_NAMES ==
    << <<"S", "u", "n", "d", "a", "y">>,
       <<"M", "o", "n", "d", "a", "y">>,
       <<"T", "u", "e", "s", "d", "a", "y">>,
       <<"W", "e", "d", "n", "e", "s", "d", "a", "y">>,
       <<"T", "h", "u", "r", "s", "d", "a", "y">>,
       <<"F", "r", "i", "d", "a", "y">>,
       <<"S", "a", "t", "u", "r", "d", "a", "y">> >>

DAY_NAMES_SHORT ==
    << <<"S", "u", "n">>,
       <<"M", "o", "n">>,
       <<"T", "u", "e">>,
       <<"W", "e", "d">>,
       <<"T", "h", "u">>,
       <<"F", "r", "i">>,
       <<"S", "a", "t">> >>

\* padZero without the padding
PadZeroNoPad(num, length) == IntToStr(num)

\* padZero(num, length)
padZero(num, length) == PadStart(IntToStr(num), length)

\* the keys sorted the other way round, shortest first
FormatTokenKeysShortestFirst ==
    << <<"M">>,
       <<"D">>,
       <<"H">>,
       <<"m">>,
       <<"s">>,
       <<"Y", "Y">>,
       <<"M", "M">>,
       <<"D", "D">>,
       <<"H", "H">>,
       <<"m", "m">>,
       <<"s", "s">>,
       <<"M", "M", "M">>,
       <<"d", "d", "d">>,
       <<"S", "S", "S">>,
       <<"Y", "Y", "Y", "Y">>,
       <<"M", "M", "M", "M">>,
       <<"d", "d", "d", "d">> >>

\* Object.keys(tokens).sort((a, b) => b.length - a.length): the keys of
\* createFormatTokens, longest first, keys of one length in insertion order
FormatTokenKeys ==
    << <<"Y", "Y", "Y", "Y">>,
       <<"M", "M", "M", "M">>,
       <<"d", "d", "d", "d">>,
       <<"M", "M", "M">>,
       <<"d", "d", "d">>,
       <<"S", "S", "S">>,
       <<"Y", "Y">>,
       <<"M", "M">>,
       <<"D", "D">>,
       <<"H", "H">>,
       <<"m", "m">>,
       <<"s", "s">>,
       <<"M">>,
       <<"D">>,
       <<"H">>,
       <<"m">>,
       <<"s">> >>

\* tokens[token]() of createFormatTokens(date) for a valid date
FormatToken(date, token) ==
    CASE token = <<"Y", "Y", "Y", "Y">> -> IntToStr(GetFullYear(date))
      [] token = <<"Y", "Y">>           -> PadStart(IntToStr(JsRem(GetFullYear(date), 100)), 2)
      [] token = <<"M", "M", "M", "M">> -> MONTH_NAMES[GetMonth(date) + 1]
      [] token = <<"M", "M", "M">>      -> MONTH_NAMES_SHORT[GetMonth(date) + 1]
      [] token = <<"M", "M">>           -> padZero(GetMonth(date) + 1, 2)
      [] token = <<"M">>                -> IntToStr(GetMonth(date) + 1)
      [] token = <<"D", "D">>           -> padZero(GetDate(date), 2)
      [] token = <<"D">>                -> IntToStr(GetDate(date))
      [] token = <<"d", "d", "d", "d">> -> DAY_NAMES[GetDay(date) + 1]
      [] token = <<"d", "d", "d">>      -> DAY_NAMES_SHORT[GetDay(date) + 1]
      [] token = <<"H", "H">>           -> padZero(GetHours(date), 2)
      [] token = <<"H">>                -> IntToStr(GetHours(date))
      [] token = <<"m", "m">>           -> padZero(GetMinutes(date), 2)
      [] token = <<"m">>                -> IntToStr(GetMinutes(date))
      [] token = <<"s", "s">>           -> padZero(GetSeconds(date), 2)
      [] token = <<"s">>                -> IntToStr(GetSeconds(date))
      [] token = <<"S", "S", "S">>      -> padZero(GetMilliseconds(date), 3)

\* the same for an Invalid Date: every getter is NaN, a name lookup undefined
FormatTokenInvalid(token) ==
    IF token \in {<<"M", "M", "M", "M">>, <<"M", "M", "M">>,
                  <<"d", "d", "d", "d">>, <<"d", "d", "d">>}
    THEN <<"u", "n", "d", "e", "f", "i", "n", "e", "d">>
    ELSE <<"N", "a", "N">>

\* the first key of keys (from index k on) that the pattern holds at i, or <<>>
RECURSIVE MatchToken(_, _, _, _)
MatchToken(pat, i, keys, k) ==
    IF k > Len(keys) THEN <<>>
    ELSE IF StartsWithAt(pat, i, keys[k]) THEN keys[k]
    ELSE MatchToken(pat, i, keys, k + 1)

\* the while loop without the literal mode: brackets are ordinary characters
RECURSIVE FormatFromNoLiteralMode(_, _, _, _)
FormatFromNoLiteralMode(date, pat, i, inLiteral) ==
    IF i > Len(pat) THEN <<>>
    ELSE LET token == MatchToken(pat, i, FormatTokenKeys, 1)
         IN  IF token # <<>>
             THEN (IF date.nan THEN FormatTokenInvalid(token) ELSE FormatToken(date, token))
                      \o FormatFromNoLiteralMode(date, pat, i + Len(token), FALSE)
             ELSE <<pat[i]>> \o FormatFromNoLiteralMode(date, pat, i + 1, FALSE)

\* the while loop of format from index i on
RECURSIVE FormatFrom(_, _, _, _)
FormatFrom(date, pat, i, inLiteral) ==
    IF i > Len(pat) THEN <<>>
    ELSE IF pat[i] = "[" THEN FormatFrom(date, pat, i + 1, TRUE)
    ELSE IF pat[i] = "]" THEN FormatFrom(date, pat, i + 1, FALSE)
    ELSE IF inLiteral THEN <<pat[i]>> \o FormatFrom(date, pat, i + 1, TRUE)
    ELSE LET token == MatchToken(pat, i, FormatTokenKeys, 1)
         IN  IF token # <<>>
             THEN (IF date.nan THEN FormatTokenInvalid(token) ELSE FormatToken(date, token))
                      \o FormatFrom(date, pat, i + Len(token), FALSE)
             ELSE <<pat[i]>> \o FormatFrom(date, pat, i + 1, FALSE)

format(date, pat) == FormatFrom(date, pat, 1, FALSE)

\* the segments the while loop of format consumes from index i on: a token
\* it expands or a character it copies, as parseCustom writes its parts
RECURSIVE FormatSegments(_, _, _)
FormatSegments(pat, i, inLiteral) ==
    IF i > Len(pat) THEN <<>>
    ELSE IF pat[i] = "[" THEN FormatSegments(pat, i + 1, TRUE)
    ELSE IF pat[i] = "]" THEN FormatSegments(pat, i + 1, FALSE)
    ELSE IF inLiteral
    THEN <<[type |-> "literal", value |-> <<pat[i]>>]>> \o FormatSegments(pat, i + 1, TRUE)
    ELSE LET token == MatchToken(pat, i, FormatTokenKeys, 1)
         IN  IF token # <<>>
             THEN <<[type |-> "token", value |-> token]>>
                      \o FormatSegments(pat, i + Len(token), FALSE)
             ELSE <<[type |-> "literal", value |-> <<pat[i]>>]>>
                      \o FormatSegments(pat, i + 1, FALSE)

---------------------------------------------------------------------------
(* parsers/custom: parseCustom *)

UpperChars == <<"A", "B", "C", "D", "E", "F", "G", "H", "I", "J", "K", "L", "M", "N", "O", "P", "Q", "R", "S", "T", "U", "V", "W", "X", "Y", "Z">>
LowerChars == <<"a", "b", "c", "d", "e", "f", "g", "h", "i", "j", "k", "l", "m", "n", "o", "p", "q", "r", "s", "t", "u", "v", "w", "x", "y", "z">>

Range(s) == {s[i] : i \in 1..Len(s)}

IsDigit(c) == c \in Range(DigitChars)
IsAlpha(c) == c \in Range(UpperChars) \cup Range(LowerChars)

\* c.toLowerCase() of one character
LowerChar(c) ==
    IF c \in Range(UpperChars)
    THEN LowerChars[CHOOSE i \in 1..26 : UpperChars[i] = c]
    ELSE c

\* s.toLowerCase()
ToLowerCase(s) == [i \in 1..Len(s) |-> LowerChar(s[i])]

\* parseInt(s, 10) of a run of digits
RECURSIVE ParseInt(_)
ParseInt(s) ==
    IF Len(s) = 0 THEN 0
    ELSE ParseInt(SubSeq(s, 1, Len(s) - 1)) * 10
             + ((CHOOSE i \in 1..10 : DigitChars[i] = s[Len(s)]) - 1)

\* s.trim() === '' for the white space of the model
IsBlank(s) == \A i \in 1..Len(s) : s[i] \in {" ", "\t", "\n"}

\* PARSE_TOKENS: the capture of each token, as [kind, min, max] of a run
ParseTokenRegex(token) ==
    CASE token = <<"Y", "Y", "Y", "Y">> -> [kind |-> "digits", min |-> 4, max |-> 4]
      [] token = <<"Y", "Y">>           -> [kind |-> "digits", min |-> 2, max |-> 2]
      [] token = <<"M", "M", "M", "M">> -> [kind |-> "alpha",  min |-> 1, max |-> -1]
      [] token = <<"M", "M", "M">>      -> [kind |-> "alpha",  min |-> 1, max |-> -1]
      [] token = <<"M", "M">>           -> [kind |-> "digits", min |-> 2, max |-> 2]
      [] token = <<"M">>                -> [kind |-> "digits", min |-> 1, max |-> 2]
      [] token = <<"D", "D">>           -> [kind |-> "digits", min |-> 2, max |-> 2]
      [] token = <<"D">>                -> [kind |-> "digits", min |-> 1, max |-> 2]
      [] token = <<"H", "H">>           -> [kind |-> "digits", min |-> 2, max |-> 2]
      [] token = <<"H">>                -> [kind |-> "digits", min |-> 1, max |-> 2]
      [] token = <<"m", "m">>           -> [kind |-> "digits", min |-> 2, max |-> 2]
      [] token = <<"m">>                -> [kind |-> "digits", min |-> 1, max |-> 2]
      [] token = <<"s", "s">>           -> [kind |-> "digits", min |-> 2, max |-> 2]
      [] token = <<"s">>                -> [kind |-> "digits", min |-> 1, max |-> 2]
      [] token = <<"S", "S", "S">>      -> [kind |-> "digits", min |-> 3, max |-> 3]

\* Object.keys(PARSE_TOKENS).sort((a, b) => b.length - a.length)
ParseTokenKeys ==
    << <<"Y", "Y", "Y", "Y">>,
       <<"M", "M", "M", "M">>,
       <<"M", "M", "M">>,
       <<"S", "S", "S">>,
       <<"Y", "Y">>,
       <<"M", "M">>,
       <<"D", "D">>,
       <<"H", "H">>,
       <<"m", "m">>,
       <<"s", "s">>,
       <<"M">>,
       <<"D">>,
       <<"H">>,
       <<"m">>,
       <<"s">> >>

\* the segmentation loop without its limit: while (remaining.length > 0)
RECURSIVE SegmentUnbounded(_, _, _, _)
SegmentUnbounded(remaining, parts, iterations, maxIterations) ==
    IF ~(Len(remaining) > 0)
    THEN [parts |-> parts, iterations |-> iterations]
    ELSE LET token == MatchToken(remaining, 1, ParseTokenKeys, 1)
         IN  IF token # <<>>
             THEN SegmentUnbounded(SubSeq(remaining, Len(token) + 1, Len(remaining)),
                          Append(parts, [type |-> "token", value |-> token]),
                          iterations + 1, maxIterations)
             ELSE SegmentUnbounded(SubSeq(remaining, 2, Len(remaining)),
                          Append(parts, [type |-> "literal", value |-> <<remaining[1]>>]),
                          iterations + 1, maxIterations)

\* the segmentation loop: [parts, iterations] when it stops
RECURSIVE Segment(_, _, _, _)
Segment(remaining, parts, iterations, maxIterations) ==
    IF ~(Len(remaining) > 0 /\ iterations < maxIterations)
    THEN [parts |-> parts, iterations |-> iterations]
    ELSE LET token == MatchToken(remaining, 1, ParseTokenKeys, 1)
         IN  IF token # <<>>
             THEN Segment(SubSeq(remaining, Len(token) + 1, Len(remaining)),
                          Append(parts, [type |-> "token", value |-> token]),
                          iterations + 1, maxIterations)
             ELSE Segment(SubSeq(remaining, 2, Len(remaining)),
                          Append(parts, [type |-> "literal", value |-> <<remaining[1]>>]),
                          iterations + 1, maxIterations)

\* tokenOrder: the tokens of parts, in order
TokenOrder(parts) ==
    SelectSeq(parts, LAMBDA p : p.type = "token")

\* The regular expression new RegExp('^' + regexPattern + '$'), as a sequence
\* of atoms [kind, min, max, ch, group, star]; the replace() escapes every
\* special character of a literal except '*', which therefore quantifies the
\* atom before it.  SyntaxError when a '*' has no atom to repeat.
RegexSyntaxError == <<[kind |-> "error", min |-> 0, max |-> 0, ch |-> "", group |-> 0, star |-> FALSE]>>

RECURSIVE BuildRegex(_, _, _, _)
BuildRegex(parts, k, atoms, groups) ==
    IF k > Len(parts) THEN atoms
    ELSE LET part == parts[k]
         IN  IF part.type = "token"
             THEN LET r == ParseTokenRegex(part.value)
                  IN  BuildRegex(parts, k + 1,
                          Append(atoms, [kind |-> r.kind, min |-> r.min, max |-> r.max,
                                         ch |-> "", group |-> groups + 1, star |-> FALSE]),
                          groups + 1)
             ELSE IF part.value = <<"*">>
             THEN IF Len(atoms) = 0 \/ atoms[Len(atoms)].star
                  THEN RegexSyntaxError
                  ELSE BuildRegex(parts, k + 1,
                          [atoms EXCEPT ![Len(atoms)].star = TRUE], groups)
             ELSE BuildRegex(parts, k + 1,
                          Append(atoms, [kind |-> "lit", min |-> 1, max |-> 1,
                                         ch |-> part.value[1], group |-> 0, star |-> FALSE]),
                          groups)

\* the length of the run of characters of the atom's class at pos, at most max
RECURSIVE RunLength(_, _, _, _)
RunLength(input, pos, atom, n) ==
    IF pos + n > Len(input) \/ (atom.max >= 0 /\ n >= atom.max) THEN n
    ELSE LET c == input[pos + n]
             ok == CASE atom.kind = "digits" -> IsDigit(c)
                     [] atom.kind = "alpha"  -> IsAlpha(c)
                     [] atom.kind = "lit"    -> c = atom.ch
         IN  IF ok THEN RunLength(input, pos, atom, n + 1) ELSE n

\* input.match(regex): greedy backtracking over the atoms, anchored at both
\* ends; [ok, caps] with caps[g] the capture of group g (<<>> when undefined)
RECURSIVE MatchAtoms(_, _, _, _, _)
RECURSIVE TryWidths(_, _, _, _, _, _)
MatchAtoms(atoms, k, input, pos, caps) ==
    IF k > Len(atoms) THEN [ok |-> pos = Len(input) + 1, caps |-> caps]
    ELSE TryWidths(atoms, k, input, pos, caps, RunLength(input, pos, atoms[k], 0))

TryWidths(atoms, k, input, pos, caps, w) ==
    LET atom == atoms[k]
    IN  IF w < atom.min
        THEN IF atom.star THEN MatchAtoms(atoms, k + 1, input, pos, caps)
             ELSE [ok |-> FALSE, caps |-> caps]
        ELSE LET caps2 == IF atom.group > 0
                          THEN [caps EXCEPT ![atom.group] = SubSeq(input, pos, pos + w - 1)]
                          ELSE caps
                 r == MatchAtoms(atoms, IF atom.star THEN k ELSE k + 1, input, pos + w, caps2)
             IN  IF r.ok THEN r ELSE TryWidths(atoms, k, input, pos, caps, w - 1)

\* values[token] after the loop over tokenOrder: the capture of the last
\* group of that token, <<>> (falsy) when there is none
RECURSIVE ValueOf(_, _, _, _)
ValueOf(tokenOrder, caps, token, i) ==
    IF i = 0 THEN <<>>
    ELSE IF tokenOrder[i].value = token THEN caps[i]
    ELSE ValueOf(tokenOrder, caps, token, i - 1)

\* findIndex comparing the names as they are written
FindIndexCaseSensitive(names, value) ==
    LET hits == {i \in 1..Len(names) : names[i] = value}
    IN  IF hits = {} THEN -1 ELSE (CHOOSE i \in hits : \A j \in hits : i <= j) - 1

\* names.findIndex(m => m.toLowerCase() === value.toLowerCase()), 0-based, -1 if none
FindIndex(names, value) ==
    LET hits == {i \in 1..Len(names) : ToLowerCase(names[i]) = ToLowerCase(value)}
    IN  IF hits = {} THEN -1 ELSE (CHOOSE i \in hits : \A j \in hits : i <= j) - 1

Failure(msg) == [success |-> FALSE, error |-> msg, value |-> NaN]
Success(date) == [success |-> TRUE, error |-> "", value |-> date]

\* the field resolution with other defaults: 1900 + YY, the 15th of the month
ResolveFieldsOtherDefaults(tokenOrder, caps, currentYear) ==
    LET V(token) == ValueOf(tokenOrder, caps, token, Len(tokenOrder))
        has(token) == V(token) # <<>>
        year == IF has(<<"Y", "Y", "Y", "Y">>) THEN ParseInt(V(<<"Y", "Y", "Y", "Y">>))
                ELSE IF has(<<"Y", "Y">>) THEN 1900 + ParseInt(V(<<"Y", "Y">>))
                ELSE currentYear
        full  == FindIndex(MONTH_NAMES, V(<<"M", "M", "M", "M">>))
        short == FindIndex(MONTH_NAMES_SHORT, V(<<"M", "M", "M">>))
        month == IF has(<<"M", "M", "M", "M">>) THEN (IF full # -1 THEN full + 1 ELSE 1)
                 ELSE IF has(<<"M", "M", "M">>) THEN (IF short # -1 THEN short + 1 ELSE 1)
                 ELSE IF has(<<"M", "M">>) THEN ParseInt(V(<<"M", "M">>))
                 ELSE IF has(<<"M">>) THEN ParseInt(V(<<"M">>))
                 ELSE 1
        day == IF has(<<"D", "D">>) THEN ParseInt(V(<<"D", "D">>))
               ELSE IF has(<<"D">>) THEN ParseInt(V(<<"D">>))
               ELSE 15
        hour == IF has(<<"H", "H">>) THEN ParseInt(V(<<"H", "H">>))
                ELSE IF has(<<"H">>) THEN ParseInt(V(<<"H">>))
                ELSE 0
        minute == IF has(<<"m", "m">>) THEN ParseInt(V(<<"m", "m">>))
                  ELSE IF has(<<"m">>) THEN ParseInt(V(<<"m">>))
                  ELSE 0
        second == IF has(<<"s", "s">>) THEN ParseInt(V(<<"s", "s">>))
                  ELSE IF has(<<"s">>) THEN ParseInt(V(<<"s">>))
                  ELSE 0
        millisecond == IF has(<<"S", "S", "S">>) THEN ParseInt(V(<<"S", "S", "S">>)) ELSE 0
    IN  DateFromFields(year, month - 1, day, hour, minute, second, millisecond)

\* the field resolution of parseCustom and the Date it builds
ResolveFields(tokenOrder, caps, currentYear) ==
    LET V(token) == ValueOf(tokenOrder, caps, token, Len(tokenOrder))
        has(token) == V(token) # <<>>
        year == IF has(<<"Y", "Y", "Y", "Y">>) THEN ParseInt(V(<<"Y", "Y", "Y", "Y">>))
                ELSE IF has(<<"Y", "Y">>) THEN 2000 + ParseInt(V(<<"Y", "Y">>))
                ELSE currentYear
        full  == FindIndex(MONTH_NAMES, V(<<"M", "M", "M", "M">>))
        short == FindIndex(MONTH_NAMES_SHORT, V(<<"M", "M", "M">>))
        month == IF has(<<"M", "M", "M", "M">>) THEN (IF full # -1 THEN full + 1 ELSE 1)
                 ELSE IF has(<<"M", "M", "M">>) THEN (IF short # -1 THEN short + 1 ELSE 1)
                 ELSE IF has(<<"M", "M">>) THEN ParseInt(V(<<"M", "M">>))
                 ELSE IF has(<<"M">>) THEN ParseInt(V(<<"M">>))
                 ELSE 1
        day == IF has(<<"D", "D">>) THEN ParseInt(V(<<"D", "D">>))
               ELSE IF has(<<"D">>) THEN ParseInt(V(<<"D">>))
               ELSE 1
        hour == IF has(<<"H", "H">>) THEN ParseInt(V(<<"H", "H">>))
                ELSE IF has(<<"H">>) THEN ParseInt(V(<<"H">>))
                ELSE 0
        minute == IF has(<<"m", "m">>) THEN ParseInt(V(<<"m", "m">>))
                  ELSE IF has(<<"m">>) THEN ParseInt(V(<<"m">>))
                  ELSE 0
        second == IF has(<<"s", "s">>) THEN ParseInt(V(<<"s", "s">>))
                  ELSE IF has(<<"s">>) THEN ParseInt(V(<<"s">>))
                  ELSE 0
        millisecond == IF has(<<"S", "S", "S">>) THEN ParseInt(V(<<"S", "S", "S">>)) ELSE 0
    IN  DateFromFields(year, month - 1, day, hour, minute, second, millisecond)

\* parseCustom with maxIterations = format.length
ParseCustomTightLimit(input, fmt, currentTime) ==
    IF IsBlank(input) \/ IsBlank(fmt)
    THEN Failure("Input and format cannot be empty")
    ELSE LET seg == Segment(fmt, <<>>, 0, Len(fmt))
             tokenOrder == TokenOrder(seg.parts)
             atoms == BuildRegex(seg.parts, 1, <<>>, 0)
             m == MatchAtoms(atoms, 1, input, 1, [g \in 1..Len(tokenOrder) |-> <<>>])
             date == ResolveFields(tokenOrder, m.caps, GetFullYear(currentTime))
         IN  IF seg.iterations >= Len(fmt)
             THEN Failure("Format parsing exceeded maximum iterations")
             ELSE IF atoms = RegexSyntaxError
             THEN Failure("Failed to parse custom format")
             ELSE IF ~m.ok
             THEN Failure("Input does not match format")
             ELSE IF date.nan
             THEN Failure("Invalid date components parsed")
             ELSE Success(date)

\* parseCustom(input, format) for two strings; currentTime is new Date()
parseCustom(input, fmt, currentTime) ==
    IF IsBlank(input) \/ IsBlank(fmt)
    THEN Failure("Input and format cannot be empty")
    ELSE LET seg == Segment(fmt, <<>>, 0, Len(fmt) * 2)
             tokenOrder == TokenOrder(seg.parts)
             atoms == BuildRegex(seg.parts, 1, <<>>, 0)
             m == MatchAtoms(atoms, 1, input, 1, [g \in 1..Len(tokenOrder) |-> <<>>])
             date == ResolveFields(tokenOrder, m.caps, GetFullYear(currentTime))
         IN  IF seg.iterations >= Len(fmt) * 2
             THEN Failure("Format parsing exceeded maximum iterations")
             ELSE IF atoms = RegexSyntaxError
             THEN Failure("Failed to parse custom format")
             ELSE IF ~m.ok
             THEN Failure("Input does not match format")
             ELSE IF date.nan
             THEN Failure("Invalid date components parsed")
             ELSE Success(date)

---------------------------------------------------------------------------
(* Comparison *)

\* equals(date1, date2), isBefore(date1, date2), isAfter(date1, date2) on the
\* time values of the two dates
IsBeforeOrEqual(date1, date2) == NumLe(date1, date2)

equals(date1, date2) == NumEq(date1, date2)
isBefore(date1, date2) == NumLt(date1, date2)
isAfter(date1, date2) == NumGt(date1, date2)

IsBetweenExclusiveEnd(date, start, end) == NumGe(date, start) /\ NumLt(date, end)

\* isBetween(date, start, end)
isBetween(date, start, end) == NumGe(date, start) /\ NumLe(date, end)

---------------------------------------------------------------------------
(* diff and toRelative *)

\* a number that need not be an integer: the double nearest to num / den
Ratio(num, den) == [nan |-> num.nan, num |-> num, den |-> den]

\* diff with the operands of the subtraction exchanged
DiffOperandsSwapped(date1, date2, u) ==
    LET millisDiff == NumSub(date2, date1)
    IN  CASE u = "millisecond" -> Ratio(millisDiff, 1)
          [] u = "second" -> Ratio(millisDiff, 1000)
          [] u = "minute" -> Ratio(millisDiff, 1000 * 60)
          [] u = "hour"   -> Ratio(millisDiff, 1000 * 60 * 60)
          [] u = "day"    -> Ratio(millisDiff, 1000 * 60 * 60 * 24)
          [] u = "week"   -> Ratio(millisDiff, 1000 * 60 * 60 * 24 * 7)
          [] OTHER        -> Ratio(millisDiff, 1)

\* diff counting a started month or year as a whole one
DiffCountsStarted(date1, date2, u) ==
    LET millisDiff == NumSub(date1, date2)
    IN  CASE u = "millisecond" -> Ratio(millisDiff, 1)
          [] u = "second" -> Ratio(millisDiff, 1000)
          [] u = "minute" -> Ratio(millisDiff, 1000 * 60)
          [] u = "hour"   -> Ratio(millisDiff, 1000 * 60 * 60)
          [] u = "day"    -> Ratio(millisDiff, 1000 * 60 * 60 * 24)
          [] u = "week"   -> Ratio(millisDiff, 1000 * 60 * 60 * 24 * 7)
          [] u = "month"  ->
                IF millisDiff.nan THEN Ratio(NaN, 1)
                ELSE Ratio(Num(0, (GetFullYear(date1) - GetFullYear(date2)) * 12
                                      + GetMonth(date1) - GetMonth(date2)), 1)
          [] u = "year"   ->
                IF millisDiff.nan THEN Ratio(NaN, 1)
                ELSE Ratio(Num(0, GetFullYear(date1) - GetFullYear(date2)), 1)

\* diff taking two off for a partial month or year
DiffTakesTwoOff(date1, date2, u) ==
    LET millisDiff == NumSub(date1, date2)
        years  == GetFullYear(date1) - GetFullYear(date2)
        months == GetMonth(date1) - GetMonth(date2)
        days   == GetDate(date1) - GetDate(date2)
    IN  CASE u = "month" ->
                IF millisDiff.nan THEN Ratio(NaN, 1)
                ELSE Ratio(Num(0, IF days < 0 THEN years * 12 + months - 2
                                  ELSE years * 12 + months), 1)
          [] u = "year" ->
                IF millisDiff.nan THEN Ratio(NaN, 1)
                ELSE Ratio(Num(0, IF months < 0 \/ (months = 0 /\ days < 0)
                                  THEN years - 2 ELSE years), 1)
          [] OTHER -> Ratio(millisDiff, 1)

\* diff(date1, date2, unit)
diff(date1, date2, u) ==
    LET millisDiff == NumSub(date1, date2)
    IN  CASE u = "millisecond" -> Ratio(millisDiff, 1)
          [] u = "second" -> Ratio(millisDiff, 1000)
          [] u = "minute" -> Ratio(millisDiff, 1000 * 60)
          [] u = "hour"   -> Ratio(millisDiff, 1000 * 60 * 60)
          [] u = "day"    -> Ratio(millisDiff, 1000 * 60 * 60 * 24)
          [] u = "week"   -> Ratio(millisDiff, 1000 * 60 * 60 * 24 * 7)
          [] u = "month"  ->
                IF millisDiff.nan THEN Ratio(NaN, 1)
                ELSE LET years  == GetFullYear(date1) - GetFullYear(date2)
                         months == GetMonth(date1) - GetMonth(date2)
                         days   == GetDate(date1) - GetDate(date2)
                         totalMonths == years * 12 + months
                     IN  Ratio(Num(0, IF days < 0 THEN totalMonths - 1 ELSE totalMonths), 1)
          [] u = "year"   ->
                IF millisDiff.nan THEN Ratio(NaN, 1)
                ELSE LET yearDiff  == GetFullYear(date1) - GetFullYear(date2)
                         monthDiff == GetMonth(date1) - GetMonth(date2)
                         dayDiff   == GetDate(date1) - GetDate(date2)
                     IN  Ratio(Num(0, IF monthDiff < 0 \/ (monthDiff = 0 /\ dayDiff < 0)
                                      THEN yearDiff - 1 ELSE yearDiff), 1)

\* 2 * p
Double(p) == Num(2 * p.d, 2 * p.ms)

\* the largest power of two that is at most x, for x >= 1
RECURSIVE FloorPow2From(_, _)
FloorPow2From(x, p) == IF NumLe(Double(p), x) THEN FloorPow2From(x, Double(p)) ELSE p
FloorPow2(x) == FloorPow2From(x, Num(0, 1))

\* the largest i with p * 2^i <= x, for p <= x
RECURSIVE FloorLog2Of(_, _, _)
FloorLog2Of(x, p, i) ==
    IF NumLe(Double(p), x) THEN FloorLog2Of(x, Double(p), i + 1) ELSE i

\* the smallest i with p * 2^i >= target, counted from i
RECURSIVE ShiftsToReach(_, _, _)
ShiftsToReach(p, target, i) ==
    IF NumGe(Double(p), target) THEN i ELSE ShiftsToReach(Double(p), target, i + 1)

\* s steps of the binary long division of r by len: the remainder left and
\* the last bit of the quotient
RECURSIVE DivideBits(_, _, _, _)
DivideBits(r, len, s, bit) ==
    IF s = 0 THEN [r |-> r, bit |-> bit]
    ELSE IF 2 * r >= len THEN DivideBits(2 * r - len, len, s - 1, 1)
    ELSE DivideBits(2 * r, len, s - 1, 0)

\* (x / len) * len === x in IEEE double arithmetic, for an integer x of at
\* most 53 bits and a unit length len.  The quotient is rounded to 53 bits
\* (ties to even), which leaves the exact product off x by e / 2^s, and the
\* product is rounded again; it is x when that error is within half a unit in
\* the last place of x.
TimesLengthIsExact(x, len) ==
    IF x.nan THEN FALSE
    ELSE IF NumEq(x, Num(0, 0)) \/ len = 1 THEN TRUE
    ELSE LET ax == IF NumLt(x, Num(0, 0)) THEN NumSub(Num(0, 0), x) ELSE x
             length == Num(0, len)
             k == FloorLog2Of(ax, Num(0, 1), 0)
             j == IF NumGe(ax, length) THEN FloorLog2Of(ax, length, 0)
                  ELSE -ShiftsToReach(ax, length, 1)
             s == 52 - j
             rem == IF len > MsPerDay THEN (ax.d % (len \div MsPerDay)) * MsPerDay + ax.ms
                    ELSE ax.ms % len
             q == DivideBits(rem, len, s, 0)
             up == 2 * q.r > len \/ (2 * q.r = len /\ q.bit = 1)
             e == IF up THEN len - q.r ELSE q.r
             T == 2 ^ (k - j - 1)
             powerOfTwo == NumEq(ax, FloorPow2(ax))
             even == k < 52 \/ ax.ms % 2 = 0
             err == IF ~up /\ powerOfTwo THEN 2 * e ELSE e
         IN  err < T \/ (err = T /\ even)

\* the names of the units of toRelative
RelativeUnitName(u) ==
    CASE u = "second" -> <<"s", "e", "c", "o", "n", "d">>
      [] u = "minute" -> <<"m", "i", "n", "u", "t", "e">>
      [] u = "hour"   -> <<"h", "o", "u", "r">>
      [] u = "day"    -> <<"d", "a", "y">>
      [] u = "week"   -> <<"w", "e", "e", "k">>
      [] u = "month"  -> <<"m", "o", "n", "t", "h">>
      [] u = "year"   -> <<"y", "e", "a", "r">>

JustNow == <<"j", "u", "s", "t", " ", "n", "o", "w">>

\* toRelative that says "just now" under one second only
ToRelativeJustNowUnderSecond(date, referenceDate, currentTime) ==
    LET nowDate == IF referenceDate # <<>> THEN referenceDate[1] ELSE currentTime
        diffMs == NumSub(date, nowDate)
        isPast == NumLt(diffMs, Num(0, 0))
        absDiffMs == IF isPast THEN NumSub(Num(0, 0), diffMs) ELSE diffMs
        second == 1000
        minute == second * 60
        hour == minute * 60
        below(days, ms) == NumLt(absDiffMs, Num(days, ms))
        pick == IF below(0, minute) THEN <<absDiffMs.ms \div second, "second">>
                ELSE IF below(0, hour) THEN <<absDiffMs.ms \div minute, "minute">>
                ELSE IF below(1, 0) THEN <<absDiffMs.ms \div hour, "hour">>
                ELSE IF below(7, 0) THEN <<absDiffMs.d, "day">>
                ELSE IF below(30, 0) THEN <<absDiffMs.d \div 7, "week">>
                ELSE IF below(365, 0) THEN <<absDiffMs.d \div 30, "month">>
                ELSE <<absDiffMs.d \div 365, "year">>
        valueStr == IF diffMs.nan THEN <<"N", "a", "N">> ELSE IntToStr(pick[1])
        unitStr == IF ~diffMs.nan /\ pick[1] = 1 THEN RelativeUnitName(pick[2])
                   ELSE RelativeUnitName(pick[2]) \o <<"s">>
    IN  IF below(0, second) THEN JustNow
        ELSE IF isPast THEN valueStr \o <<" ">> \o unitStr \o <<" ", "a", "g", "o">>
        ELSE <<"i", "n", " ">> \o valueStr \o <<" ">> \o unitStr

\* toRelative without the singular: the unit always gets its s
ToRelativeAlwaysPlural(date, referenceDate, currentTime) ==
    LET nowDate == IF referenceDate # <<>> THEN referenceDate[1] ELSE currentTime
        diffMs == NumSub(date, nowDate)
        isPast == NumLt(diffMs, Num(0, 0))
        absDiffMs == IF isPast THEN NumSub(Num(0, 0), diffMs) ELSE diffMs
        second == 1000
        minute == second * 60
        hour == minute * 60
        below(days, ms) == NumLt(absDiffMs, Num(days, ms))
        \* [value, unit]: Math.floor(absDiffMs / length of the unit)
        pick == IF below(0, minute) THEN <<absDiffMs.ms \div second, "second">>
                ELSE IF below(0, hour) THEN <<absDiffMs.ms \div minute, "minute">>
                ELSE IF below(1, 0) THEN <<absDiffMs.ms \div hour, "hour">>
                ELSE IF below(7, 0) THEN <<absDiffMs.d, "day">>
                ELSE IF below(30, 0) THEN <<absDiffMs.d \div 7, "week">>
                ELSE IF below(365, 0) THEN <<absDiffMs.d \div 30, "month">>
                ELSE <<absDiffMs.d \div 365, "year">>
        valueStr == IF diffMs.nan THEN <<"N", "a", "N">> ELSE IntToStr(pick[1])
        unitStr == RelativeUnitName(pick[2]) \o <<"s">>
    IN  IF below(0, minute) /\ below(0, 10 * second) THEN JustNow
        ELSE IF isPast THEN valueStr \o <<" ">> \o unitStr \o <<" ", "a", "g", "o">>
        ELSE <<"i", "n", " ">> \o valueStr \o <<" ">> \o unitStr

\* toRelative(date, referenceDate): referenceDate is <<>> when it is not
\* given, and currentTime is new Date()
toRelative(date, referenceDate, currentTime) ==
    LET nowDate == IF referenceDate # <<>> THEN referenceDate[1] ELSE currentTime
        diffMs == NumSub(date, nowDate)
        isPast == NumLt(diffMs, Num(0, 0))
        absDiffMs == IF isPast THEN NumSub(Num(0, 0), diffMs) ELSE diffMs
        second == 1000
        minute == second * 60
        hour == minute * 60
        below(days, ms) == NumLt(absDiffMs, Num(days, ms))
        \* [value, unit]: Math.floor(absDiffMs / length of the unit)
        pick == IF below(0, minute) THEN <<absDiffMs.ms \div second, "second">>
                ELSE IF below(0, hour) THEN <<absDiffMs.ms \div minute, "minute">>
                ELSE IF below(1, 0) THEN <<absDiffMs.ms \div hour, "hour">>
                ELSE IF below(7, 0) THEN <<absDiffMs.d, "day">>
                ELSE IF below(30, 0) THEN <<absDiffMs.d \div 7, "week">>
                ELSE IF below(365, 0) THEN <<absDiffMs.d \div 30, "month">>
                ELSE <<absDiffMs.d \div 365, "year">>
        valueStr == IF diffMs.nan THEN <<"N", "a", "N">> ELSE IntToStr(pick[1])
        unitStr == IF ~diffMs.nan /\ pick[1] = 1 THEN RelativeUnitName(pick[2])
                   ELSE RelativeUnitName(pick[2]) \o <<"s">>
    IN  IF below(0, minute) /\ below(0, 10 * second) THEN JustNow
        ELSE IF isPast THEN valueStr \o <<" ">> \o unitStr \o <<" ", "a", "g", "o">>
        ELSE <<"i", "n", " ">> \o valueStr \o <<" ">> \o unitStr

---------------------------------------------------------------------------
(* Time zones *)

\* the identifiers the host's Intl.DateTimeFormat accepts, of those tried
ValidTimezones == {"UTC", "America/New_York"}

\* convertToTimezone returning the wall-clock reading of the zone as the
\* time value
ConvertToTimezoneShifted(date, timezone) ==
    IF timezone \notin ValidTimezones \/ date.nan THEN <<>>
    ELSE IF timezone = "UTC" THEN <<NewDate(date)>>
    ELSE <<NewDate(NumSub(date, Num(0, 5 * MsPerHour)))>>

\* convertToTimezone(date, timezone): <<>> for null, else the new Date's time
\* value; formatToParts throws a RangeError on an Invalid Date
convertToTimezone(date, timezone) ==
    IF timezone \notin ValidTimezones \/ date.nan THEN <<>>
    ELSE <<NewDate(date)>>

convertToUTC(date) == NewDate(date)
convertToLocal(date) == NewDate(date)

---------------------------------------------------------------------------
(* Inputs of the arithmetic scenarios *)

TzOffsets == {0, -300}

SampleYears  == {1900, 2000, 2023, 2024, 2100}
SampleMonths == 1..12
SampleDays   == {1, 15, 28, 29, 30, 31}
\* 00:00:00.000, 14:30:45.123, 23:59:59.999 as milliseconds of the day
SampleTimes  == {0, 52245123, 86399999}

\* ordinary dates, built as new Date(y, m - 1, d, 0, 0, 0, ms) in the host zone
SampleDates ==
    { DateFromFields(y, m - 1, d, 0, 0, 0, t) :
        y \in SampleYears, m \in SampleMonths, d \in SampleDays, t \in SampleTimes }

\* the first and last valid time values and dates next to them
EdgeDates ==
    { Num(MaxDateDays, 0), Num(MaxDateDays - 1, 52245123), Num(MaxDateDays - 14, 0),
      Num(-MaxDateDays, 0), Num(-MaxDateDays, 52245123), Num(41 - MaxDateDays, 0) }

Amounts == (-MaxAmount .. MaxAmount) \cup {-100, 100}

\* the variables of the other scenarios at rest
FmtIdle ==
    /\ now = Num(0, 0)
    /\ fmtDate = NaN
    /\ pattern = <<>>
    /\ formatted = <<>>
    /\ parseInput = <<>>
    /\ parsed = Failure("")

ObjIdle ==
    /\ heap = <<>>
    /\ watches = <<>>
    /\ born = <<>>
    /\ held = {}
    /\ last = [op |-> "none", result |-> FALSE]

CallIdle ==
    /\ fn = "none"
    /\ arg = [type |-> "undefined"]
    /\ fmtArg = [type |-> "undefined"]
    /\ dateA = NaN
    /\ dateB = NaN
    /\ answer = FALSE

ArithIdle ==
    /\ original = NaN
    /\ amount = 0
    /\ unit = "day"
    /\ added = NaN
    /\ roundTrip = NaN

InitArith ==
    /\ tzOffset \in TzOffsets
    /\ dst = FALSE
    /\ CallIdle
    /\ pc = "start"
    /\ original \in SampleDates \cup EdgeDates
    /\ amount \in Amounts
    /\ unit \in TimeUnits
    /\ added = NaN
    /\ roundTrip = NaN
    /\ FmtIdle
    /\ ObjIdle

\* const added = original.add(amount, unit)
Add ==
    /\ pc = "start"
    /\ added' = add(original, amount, unit)
    /\ pc' = "added"
    /\ UNCHANGED <<tzOffset, dst, original, amount, unit, roundTrip, fmtVars, objVars, callVars>>

\* const roundTrip = added.subtract(amount, unit)
Subtract ==
    /\ pc = "added"
    /\ roundTrip' = subtract(added, amount, unit)
    /\ pc' = "done"
    /\ UNCHANGED <<tzOffset, dst, original, amount, unit, added, fmtVars, objVars, callVars>>

NextArith == Add \/ Subtract

SpecArith == InitArith /\ [][NextArith]_vars

---------------------------------------------------------------------------
(* Inputs of the format and parse scenarios *)

PatDefault == <<"Y", "Y", "Y", "Y", "-", "M", "M", "-", "D", "D", " ", "H", "H", ":", "m", "m", ":", "s", "s">>
PatHmmA == <<"h", ":", "m", "m", " ", "A">>
PatHhmmssA == <<"h", "h", ":", "m", "m", ":", "s", "s", " ", "a">>
PatUSHmmA == <<"M", "M", "/", "D", "D", "/", "Y", "Y", "Y", "Y", " ", "h", ":", "m", "m", " ", "A">>
PatISOHmmA == <<"Y", "Y", "Y", "Y", "-", "M", "M", "-", "D", "D", " ", "h", ":", "m", "m", " ", "a">>
PatUSHhmmA == <<"M", "M", "/", "D", "D", "/", "Y", "Y", "Y", "Y", " ", "h", "h", ":", "m", "m", " ", "A">>
PatLong == <<"M", "M", "M", "M", " ", "D", ",", " ", "Y", "Y", "Y", "Y">>
PatLiteral == <<"d", "d", "d", "d", ",", " ", "M", "M", "M", " ", "D", " ", "[", "a", "t", "]", " ", "H", "H", ":", "m", "m">>
PatShort == <<"Y", "Y", "/", "M", "/", "D", " ", "H", ":", "m", ":", "s", ".", "S", "S", "S">>
PatFiveM == <<"M", "M", "M", "M", "M">>
PatThreeY == <<"Y", "Y", "Y">>
PatYearIs == <<"[", "T", "h", "e", " ", "y", "e", "a", "r", " ", "i", "s", "]", " ", "Y", "Y", "Y", "Y">>
PatBracketYear == <<"[", "Y", "Y", "Y", "Y", "]">>
PatDate == <<"Y", "Y", "Y", "Y", "-", "M", "M", "-", "D", "D">>
PatMonthDay == <<"M", "M", "M", " ", "D">>
PatDayMonth == <<"D", "/", "M">>
PatCompact == <<"Y", "Y", "Y", "Y", "M", "M", "D", "D", "H", "H", "m", "m", "s", "s">>
PatTime == <<"H", "H", ":", "m", "m", ":", "s", "s">>
PatSlashes == <<"D", "D", "/", "M", "M", "/", "Y", "Y", "Y", "Y", ",", " ", "H", "H", ".", "m", "m">>

FixedPatterns == {PatDefault, PatHmmA, PatHhmmssA, PatUSHmmA, PatISOHmmA, PatUSHhmmA, PatLong, PatLiteral, PatShort,
                  PatDate, PatCompact, PatTime, PatSlashes, PatFiveM, PatThreeY, PatYearIs, PatBracketYear,
                  PatMonthDay, PatDayMonth}

TextUS230PM == <<"1", "2", "/", "0", "5", "/", "2", "0", "2", "5", " ", "2", ":", "3", "0", " ", "P", "M">>
TextUS1230AM == <<"1", "2", "/", "0", "5", "/", "2", "0", "2", "5", " ", "1", "2", ":", "3", "0", " ", "A", "M">>
TextUS1230PM == <<"1", "2", "/", "0", "5", "/", "2", "0", "2", "5", " ", "1", "2", ":", "3", "0", " ", "P", "M">>
TextUS930AM == <<"1", "2", "/", "0", "5", "/", "2", "0", "2", "5", " ", "9", ":", "3", "0", " ", "A", "M">>
TextUS0930AM == <<"1", "2", "/", "0", "5", "/", "2", "0", "2", "5", " ", "0", "9", ":", "3", "0", " ", "A", "M">>
TextISO330pm == <<"2", "0", "2", "5", "-", "1", "2", "-", "0", "5", " ", "3", ":", "3", "0", " ", "p", "m">>
TextISO == <<"2", "0", "2", "5", "-", "1", "2", "-", "0", "5", " ", "1", "4", ":", "3", "0", ":", "4", "5">>
TextLong == <<"D", "e", "c", "e", "m", "b", "e", "r", " ", "5", ",", " ", "2", "0", "2", "5">>
TextShort == <<"2", "5", "/", "2", "/", "3", "1", " ", "7", ":", "5", ":", "9", ".", "1", "2", "0">>
TextBad == <<"n", "o", "t", "-", "a", "-", "d", "a", "t", "e">>

TextDashes == <<"2", "0", "2", "5", "-", "1", "2", "-", "0", "5">>
TextTime == <<"1", "4", ":", "3", "0", ":", "4", "5">>
TextTimeOver == <<"2", "5", ":", "6", "1", ":", "6", "1">>
TextLongLower == <<"d", "e", "c", "e", "m", "b", "e", "r", " ", "5", ",", " ", "2", "0", "2", "5">>
TextLongUnknown == <<"S", "m", "a", "r", "c", "h", " ", "5", ",", " ", "2", "0", "2", "5">>
TextShortMonth == <<"D", "E", "C", " ", "5">>
TextShortDay3 == <<"2", "5", "/", "2", "/", "3", " ", "7", ":", "5", ":", "9", ".", "1", "2", "0">>
TextDayMonth == <<"5", "/", "1", "2">>
TextShortUnknown == <<"D", "e", "c", "e", "m", "b", "e", "r", " ", "5">>

SampleTexts == {TextUS230PM, TextUS1230AM, TextUS1230PM, TextUS930AM, TextUS0930AM, TextISO330pm, TextISO, TextLong, TextShort, TextBad,
                TextDashes, TextTime, TextTimeOver, TextLongLower, TextLongUnknown, TextShortMonth, TextShortUnknown, TextShortDay3, TextDayMonth}

\* the tokens of the round-trip property and what is put between two of
\* them: nothing, a plain separator, or a character special to one side
RoundTripTokens ==
    { <<"Y", "Y", "Y", "Y">>, <<"M", "M">>, <<"D", "D">>,
      <<"H", "H">>, <<"m", "m">>, <<"s", "s">> }
Separators == { <<>>, <<"-">>, <<"*">>, <<"[">> }

\* the patterns of exactly k tokens
RECURSIVE PatternsOf(_)
PatternsOf(k) ==
    IF k = 1 THEN RoundTripTokens
    ELSE {p \o sep \o token :
            p \in PatternsOf(k - 1), sep \in Separators, token \in RoundTripTokens}

GeneratedPatterns == UNION {PatternsOf(k) : k \in 1..MaxTokens}

\* dates to format: [year, month, day, hour, minute, second, millisecond], local
FormatFields ==
    { <<2025, 12, 6, 14, 30, 45, 0>>,   <<2025, 12, 5, 15, 30, 45, 7>>,
      <<2025, 12, 5, 0, 30, 45, 0>>,    <<2025, 12, 5, 12, 0, 0, 0>>,
      <<2024, 2, 29, 9, 5, 3, 120>>,    <<2000, 1, 31, 23, 59, 59, 999>>,
      <<1000, 1, 1, 0, 0, 0, 0>>,       <<9999, 12, 31, 13, 7, 10, 0>>,
      <<999, 6, 15, 11, 11, 11, 0>>,    <<10000, 3, 9, 1, 2, 3, 0>>,
      <<-44, 3, 15, 12, 0, 0, 0>> }

\* new Date(y, m - 1, d, ...) then setFullYear(y): a year below 100 is kept
FormatDates ==
    { SetFullYear(DateFromFields(2000, f[2] - 1, f[3], f[4], f[5], f[6], f[7]), f[1]) :
        f \in FormatFields }

\* the host clock: a day of a leap year and a day of a common year
ClockFields == { <<2024, 7, 1>>, <<2026, 11, 5>> }

InitFormat ==
    /\ tzOffset \in TzOffsets
    /\ dst = FALSE
    /\ CallIdle
    /\ pc = "start"
    /\ ArithIdle
    /\ ObjIdle
    /\ now \in { DateFromFields(f[1], f[2] - 1, f[3], 10, 0, 0, 0) : f \in ClockFields }
    /\ fmtDate \in FormatDates
    /\ pattern \in FixedPatterns \cup GeneratedPatterns
    /\ formatted = <<>>
    /\ parseInput = <<>>
    /\ parsed = Failure("")

\* const formatted = date.format(pattern)
Format ==
    /\ pc = "start"
    /\ formatted' = format(fmtDate, pattern)
    /\ pc' = "formatted"
    /\ UNCHANGED <<tzOffset, dst, arithVars, objVars, callVars, now, fmtDate, pattern, parseInput, parsed>>

\* const parsed = parseCustom(formatted, pattern)
ParseFormatted ==
    /\ pc = "formatted"
    /\ parseInput' = formatted
    /\ parsed' = parseCustom(formatted, pattern, now)
    /\ pc' = "reparsed"
    /\ UNCHANGED <<tzOffset, dst, arithVars, objVars, callVars, now, fmtDate, pattern, formatted>>

\* const result = parseCustom(text, pattern) for a text of the caller
ParseText ==
    /\ pc = "start"
    /\ pattern \in FixedPatterns
    /\ \E text \in SampleTexts :
          /\ parseInput' = text
          /\ parsed' = parseCustom(text, pattern, now)
    /\ pc' = "parsed"
    /\ UNCHANGED <<tzOffset, dst, arithVars, objVars, callVars, now, fmtDate, pattern, formatted>>

NextFormat == Format \/ ParseFormatted \/ ParseText

SpecFormat == InitFormat /\ [][NextFormat]_vars

---------------------------------------------------------------------------
(* parsers/iso, parsers/timestamp and the parse dispatcher *)

\* values of any type, as a caller may pass them
Str(s) == [type |-> "string", str |-> s]
Number(n) == [type |-> "number", num |-> n]
Null == [type |-> "null"]
Undefined == [type |-> "undefined"]
Object == [type |-> "object"]

\* an exception that leaves the function
Thrown(e) == [success |-> FALSE, error |-> e, value |-> NaN, thrown |-> TRUE]
IsThrown(r) == "thrown" \in DOMAIN r

TextISOZ == <<"2", "0", "2", "5", "-", "1", "2", "-", "0", "5", "T", "1", "0", ":", "3", "0", ":", "0", "0", "Z">>
TextISOOffset == <<"2", "0", "2", "5", "-", "1", "2", "-", "0", "5", "T", "1", "0", ":", "3", "0", ":", "0", "0", "+", "0", "5", ":", "3", "0">>
TextISOLocal == <<"2", "0", "2", "5", "-", "1", "2", "-", "0", "5", "T", "1", "0", ":", "3", "0", ":", "0", "0">>
TextISODate == <<"2", "0", "2", "5", "-", "1", "2", "-", "0", "5">>
TextMonth13 == <<"2", "0", "2", "5", "-", "1", "3", "-", "0", "1", "T", "0", "0", ":", "0", "0", ":", "0", "0", "Z">>
TextMonth00 == <<"2", "0", "2", "5", "-", "0", "0", "-", "0", "1", "T", "0", "0", ":", "0", "0", ":", "0", "0", "Z">>
TextLetters == <<"a", "b", "c", "d", "e", "f", "g", "h">>
TextSpaces == <<" ", " ", " ">>

\* the texts outside the ISO format that a lenient host still reads, and the
\* local fields it reads from them
LegacyTexts == {TextLong, TextISO}
LegacyFields(str) ==
    IF str = TextLong THEN <<2025, 11, 5, 0, 0, 0>> ELSE <<2025, 11, 5, 14, 30, 45>>

\* new Date(str).getTime(): the ISO date-time format of the language, and for
\* any other text whatever the host reads from it (lenient or not)
DateParse(str, lenient) ==
    LET n == Len(str)
        digits(i, j) == j <= n /\ \A k \in i..j : IsDigit(str[k])
        int(i, j) == ParseInt(SubSeq(str, i, j))
        dateShape == /\ n >= 10
                     /\ digits(1, 4) /\ str[5] = "-" /\ digits(6, 7)
                     /\ str[8] = "-" /\ digits(9, 10)
        timeShape == /\ n >= 19 /\ str[11] = "T"
                     /\ digits(12, 13) /\ str[14] = ":" /\ digits(15, 16)
                     /\ str[17] = ":" /\ digits(18, 19)
        zoneShape == \/ n = 19
                     \/ n = 20 /\ str[20] = "Z"
                     \/ /\ n = 25 /\ str[20] \in {"+", "-"}
                        /\ digits(21, 22) /\ str[23] = ":" /\ digits(24, 25)
        isoShape == dateShape /\ (n = 10 \/ (timeShape /\ zoneShape))
        year == int(1, 4)
        month == int(6, 7)
        day == int(9, 10)
        ms == IF n = 10 THEN 0
              ELSE int(12, 13) * 3600000 + int(15, 16) * 60000 + int(18, 19) * 1000
        fieldsOk == /\ month \in 1..12
                    /\ day >= 1
                    /\ CivilFromDays(DaysFromCivil(year, month, day)).day = day
                    /\ n > 10 => (int(12, 13) <= 23 /\ int(15, 16) <= 59 /\ int(18, 19) <= 59)
                    /\ n = 25 => (int(21, 22) <= 23 /\ int(24, 25) <= 59)
        written == Num(DaysFromCivil(year, month, day), ms)
        offset == (int(21, 22) * 60 + int(24, 25)) * 60000
        f == LegacyFields(str)
    IN  IF isoShape
        THEN IF ~fieldsOk THEN NaN
             ELSE IF n = 19 THEN NewDate(UTC(written))
             ELSE IF n = 25
             THEN NewDate(Num(written.d,
                      written.ms + (IF str[20] = "+" THEN -offset ELSE offset)))
             ELSE NewDate(written)
        ELSE IF lenient /\ str \in LegacyTexts
        THEN DateFromFields(f[1], f[2], f[3], f[4], f[5], f[6], 0)
        ELSE NaN

ParseISONoTypeCheck(input, lenient) ==
    IF input.type # "string" THEN Thrown("TypeError: input.trim is not a function")
    ELSE IF IsBlank(input.str) THEN Failure("Input string cannot be empty")
    ELSE LET date == DateParse(input.str, lenient)
         IN  IF IsNaN(date) THEN Failure("Invalid ISO 8601 date string")
             ELSE Success(NewDate(date))

\* parseISO(input)
parseISO(input, lenient) ==
    IF input.type # "string" THEN Failure("Input must be a string")
    ELSE IF IsBlank(input.str) THEN Failure("Input string cannot be empty")
    ELSE LET date == DateParse(input.str, lenient)
         IN  IF IsNaN(date) THEN Failure("Invalid ISO 8601 date string")
             ELSE Success(NewDate(date))

\* parseTimestamp(input): new WristWatch(input)
parseTimestamp(input) == NewDate(input)

ParseNumberNeedsDate(input, lenient) ==
    IF input.type = "number" /\ ~IsNaN(parseTimestamp(input.num))
    THEN Success(parseTimestamp(input.num))
    ELSE IF input.type = "string"
    THEN LET isoResult == parseISO(input, lenient)
             date == DateParse(input.str, lenient)
         IN  IF isoResult.success THEN isoResult
             ELSE IF ~IsNaN(date) THEN Success(NewDate(date))
             ELSE Failure("Unable to parse date string")
    ELSE Failure("Input must be a string or number")

\* parse(input)
parse(input, lenient) ==
    IF input.type = "number" THEN Success(parseTimestamp(input.num))
    ELSE IF input.type = "string"
    THEN LET isoResult == parseISO(input, lenient)
             date == DateParse(input.str, lenient)
         IN  IF isoResult.success THEN isoResult
             ELSE IF ~IsNaN(date) THEN Success(NewDate(date))
             ELSE Failure("Unable to parse date string")
    ELSE Failure("Input must be a string or number")

\* parseCustom(input, format) for arguments of any type
parseCustomAny(input, fmt, currentTime) ==
    IF input.type # "string" \/ fmt.type # "string"
    THEN Failure("Input and format must be strings")
    ELSE parseCustom(input.str, fmt.str, currentTime)

---------------------------------------------------------------------------
(* The parsing surface called with inputs of every kind *)

PatStarFirst == <<"*", "Y", "Y", "Y", "Y">>
PatStar == <<"Y", "Y", "Y", "Y", "*", "M", "M">>
PatDots == <<"Y", "Y", "Y", "Y", ".", "M", "M", ".", "D", "D">>
PatParens == <<"(", "Y", "Y", "Y", "Y", ")", "+", "M", "M", "?">>
TextStar == <<"2", "0", "2", "5", "*", "1", "2">>
TextNoStar == <<"2", "0", "2", "5", "1", "2">>
TextDots == <<"2", "0", "2", "5", ".", "1", "2", ".", "0", "5">>
TextParens == <<"(", "2", "0", "2", "5", ")", "+", "1", "2", "?">>

SurfaceTexts ==
    { <<>>, TextSpaces, TextBad, TextLetters, TextMonth13, TextMonth00,
      TextISOZ, TextISOOffset, TextISOLocal, TextISODate, TextLong, TextISO,
      TextStar, TextNoStar, TextDots, TextParens, TextDashes }

\* numbers a caller may pass: time values, one past the range of Date, NaN
SurfaceNumbers == { Num(0, 0), Num(20427, 37800000), Num(-1, 0), Num(MaxDateDays, 1), NaN }

SurfaceInputs ==
    {Str(t) : t \in SurfaceTexts} \cup {Number(t) : t \in SurfaceNumbers}
        \cup {Null, Undefined, Object}

SurfacePatterns ==
    {Str(p) : p \in {<<>>, PatDate, PatDefault, PatStarFirst, PatStar, PatDots, PatParens}}
        \cup {Null, Number(Num(0, 0))}

InitParse ==
    /\ tzOffset \in TzOffsets
    /\ dst = FALSE
    /\ pc = "start"
    /\ ArithIdle
    /\ ObjIdle
    /\ now = DateFromFields(2026, 10, 5, 10, 0, 0, 0)
    /\ fmtDate = NaN
    /\ pattern = <<>>
    /\ formatted = <<>>
    /\ parseInput = <<>>
    /\ parsed = Failure("")
    /\ fn \in {"parseISO", "parseCustom", "parse"}
    /\ arg \in SurfaceInputs
    /\ fmtArg \in (IF fn = "parseCustom" THEN SurfacePatterns ELSE {Undefined})
    /\ dateA = NaN
    /\ dateB = NaN
    /\ answer = FALSE

ParseFrame == UNCHANGED <<tzOffset, dst, arithVars, fmtVars, objVars, fn, arg, fmtArg, dateA, dateB>>

\* parseISO(arg)
CallParseISO ==
    /\ pc = "start" /\ fn = "parseISO"
    /\ \E lenient \in BOOLEAN : answer' = parseISO(arg, lenient)
    /\ pc' = "returned"
    /\ ParseFrame

\* parseCustom(arg, format)
CallParseCustom ==
    /\ pc = "start" /\ fn = "parseCustom"
    /\ answer' = parseCustomAny(arg, fmtArg, now)
    /\ pc' = "returned"
    /\ ParseFrame

\* parse(arg)
CallParse ==
    /\ pc = "start" /\ fn = "parse"
    /\ \E lenient \in BOOLEAN : answer' = parse(arg, lenient)
    /\ pc' = "returned"
    /\ ParseFrame

NextParse == CallParseISO \/ CallParseCustom \/ CallParse

SpecParse == InitParse /\ [][NextParse]_vars

---------------------------------------------------------------------------
(* diff, toRelative, the conversions and add called on pairs of dates *)

\* reference dates: noon of the day before each transition of 2024 in local
\* time, an ordinary instant, the end of February 1900 and the morning of
\* the last day of January 2023
DateRefs ==
    {DateFromFields(2024, 2, 9, 12, 0, 0, 0),
     DateFromFields(2024, 10, 2, 12, 0, 0, 0),
     Num(19782, 50703120),
     DateFromFields(1900, 1, 28, 23, 30, 0, 0),
     DateFromFields(2023, 0, 31, 8, 0, 0, 0)}

\* distances between the two dates, around the edges of the bands of
\* toRelative and around multiples of the unit lengths
OffsetSizes ==
    {Num(0, 0), Num(0, 27), Num(0, 1000), Num(0, 1001), Num(0, 5000), Num(0, 9999),
     Num(0, 10000), Num(0, 59999), Num(0, 60000), Num(0, 90000), Num(0, 3599999),
     Num(0, 3600000), Num(0, 7200000), Num(0, 72000000), Num(0, 86399999), Num(1, 0),
     Num(1, 43200000),
     Num(6, 86399999), Num(7, 0), Num(10, 0), Num(29, 86399999), Num(30, 0),
     Num(45, 0), Num(364, 86399999), Num(365, 0), Num(730, 0), Num(800, 0)}

Offsets == OffsetSizes \cup {NumSub(Num(0, 0), o) : o \in OffsetSizes}

\* a timezone identifier passed to toTimezone
Timezone(id) == [type |-> "timezone", id |-> id]

DateTimezones == {"UTC", "America/New_York", "Invalid/Timezone"}

DateAmounts == {1, -1, 13}

\* WristWatch.toTimezone(timezone): null or a new WristWatch
toTimezone(date, timezone) ==
    LET converted == convertToTimezone(date, timezone)
    IN  IF converted = <<>> THEN <<>> ELSE <<NewDate(converted[1])>>

\* WristWatch.toUTC(), WristWatch.toLocal()
toUTC(date) == NewDate(convertToUTC(date))
toLocal(date) == NewDate(convertToLocal(date))

InitDates ==
    /\ tzOffset \in TzOffsets
    /\ dst \in BOOLEAN
    /\ pc = "start"
    /\ ObjIdle
    /\ fmtDate = NaN
    /\ pattern = <<>>
    /\ formatted = <<>>
    /\ parseInput = <<>>
    /\ parsed = Failure("")
    /\ original = NaN
    /\ added = NaN
    /\ roundTrip = NaN
    /\ fmtArg = Undefined
    /\ fn \in {"diff", "toRelative", "toTimezone", "toUTC", "toLocal", "add"}
    /\ dateB \in DateRefs
    /\ now = dateB
    /\ dateA \in {NumAdd(dateB, o) : o \in Offsets} \cup {NaN}
    /\ unit \in (IF fn \in {"diff", "add"} THEN TimeUnits ELSE {"day"})
    /\ amount \in (IF fn = "add" THEN DateAmounts ELSE {0})
    /\ arg \in (CASE fn = "toTimezone" -> {Timezone(id) : id \in DateTimezones}
                  [] fn = "toRelative" -> {Undefined, Object}
                  [] OTHER -> {Undefined})
    /\ answer = FALSE

DatesFrame ==
    UNCHANGED <<tzOffset, dst, arithVars, fmtVars, objVars, fn, arg, fmtArg, dateA, dateB>>

\* dateA.diff(dateB, unit)
CallDiff ==
    /\ pc = "start" /\ fn = "diff"
    /\ answer' = diff(dateA, dateB, unit)
    /\ pc' = "returned"
    /\ DatesFrame

\* dateA.toRelative(dateB), dateA.toRelative()
CallToRelative ==
    /\ pc = "start" /\ fn = "toRelative"
    /\ answer' = toRelative(dateA, IF arg = Undefined THEN <<>> ELSE <<dateB>>, now)
    /\ pc' = "returned"
    /\ DatesFrame

\* dateA.toTimezone(arg)
CallToTimezone ==
    /\ pc = "start" /\ fn = "toTimezone"
    /\ answer' = toTimezone(dateA, arg.id)
    /\ pc' = "returned"
    /\ DatesFrame

\* dateA.toUTC()
CallToUTC ==
    /\ pc = "start" /\ fn = "toUTC"
    /\ answer' = toUTC(dateA)
    /\ pc' = "returned"
    /\ DatesFrame

\* dateA.toLocal()
CallToLocal ==
    /\ pc = "start" /\ fn = "toLocal"
    /\ answer' = toLocal(dateA)
    /\ pc' = "returned"
    /\ DatesFrame

\* dateA.add(amount, unit)
CallAdd ==
    /\ pc = "start" /\ fn = "add"
    /\ answer' = add(dateA, amount, unit)
    /\ pc' = "returned"
    /\ DatesFrame

NextDates == CallDiff \/ CallToRelative \/ CallToTimezone \/ CallToUTC \/ CallToLocal \/ CallAdd

SpecDates == InitDates /\ [][NextDates]_vars

---------------------------------------------------------------------------
(* The WristWatch class over a heap of Date objects *)

\* A reference is an index of heap; heap[r] is the time value of Date r.

\* the constructor storing the caller's Date itself
WristWatchKeepsInput(h, input) == [heap |-> h, date |-> input]

\* new WristWatch(input) for a Date input: this.date = new Date(input.getTime());
\* the heap afterwards and the reference kept in this.date
WristWatch(h, input) ==
    [heap |-> Append(h, NewDate(h[input])), date |-> Len(h) + 1]

\* getDate(): return new Date(this.date.getTime()); the heap afterwards and
\* the reference returned
getDate(h, date) ==
    [heap |-> Append(h, NewDate(h[date])), date |-> Len(h) + 1]

\* getTimestamp(): this.date.getTime()
getTimestamp(h, date) == h[date]

\* time values the caller passes in: two days of 2024 and a number past the
\* range of Date
ObjTimes == { Num(19782, 50703120), Num(19753, 61200000), Num(MaxDateDays, 1) }
ObjAmounts == {1}
ObjUnits == {"day", "month"}
ObjTimezones == {"UTC", "Invalid/Zone"}

Watches == 1..Len(watches)

Init ==
    /\ tzOffset \in TzOffsets
    /\ dst = FALSE
    /\ CallIdle
    /\ pc = "start"
    /\ ArithIdle
    /\ FmtIdle
    /\ ObjIdle

ObjFrame == UNCHANGED <<tzOffset, dst, pc, arithVars, fmtVars, callVars>>

\* a call that returns a new WristWatch wrapping the Date newDate just made
ReturnWatch(op, newDate) ==
    LET made == Append(heap, newDate)
        w == WristWatch(made, Len(made))
    IN  /\ Len(heap) + 2 <= MaxHeap
        /\ heap' = w.heap
        /\ watches' = Append(watches, w.date)
        /\ born' = Append(born, getTimestamp(w.heap, w.date))
        /\ last' = [op |-> op, result |-> Len(watches) + 1]
        /\ UNCHANGED held

\* a call that returns a plain value
ReturnValue(op, value) ==
    /\ last' = [op |-> op, result |-> value]
    /\ UNCHANGED <<heap, watches, born, held>>

\* the caller: const d = new Date(t)
CreateDate ==
    /\ Len(heap) < MaxHeap
    /\ \E t \in ObjTimes :
          /\ heap' = Append(heap, NewDate(t))
          /\ held' = held \cup {Len(heap) + 1}
    /\ last' = [op |-> "new Date", result |-> Len(heap) + 1]
    /\ UNCHANGED <<watches, born>>
    /\ ObjFrame

\* the caller: d.setTime(t) on a Date it holds
SetTime ==
    /\ \E r \in held, t \in ObjTimes :
          /\ heap[r] # NewDate(t)
          /\ heap' = [heap EXCEPT ![r] = NewDate(t)]
    /\ last' = [op |-> "setTime", result |-> FALSE]
    /\ UNCHANGED <<watches, born, held>>
    /\ ObjFrame

\* new WristWatch(number): this.date = new Date(input)
ConstructFromNumber ==
    /\ Len(heap) < MaxHeap
    /\ \E t \in ObjTimes :
          /\ heap' = Append(heap, NewDate(t))
          /\ born' = Append(born, NewDate(t))
    /\ watches' = Append(watches, Len(heap) + 1)
    /\ last' = [op |-> "new WristWatch(number)", result |-> Len(watches) + 1]
    /\ UNCHANGED held
    /\ ObjFrame

\* new WristWatch(d) for a Date d of the caller
ConstructFromDate ==
    /\ \E r \in held :
          LET w == WristWatch(heap, r)
          IN  /\ Len(w.heap) <= MaxHeap
              /\ heap' = w.heap
              /\ watches' = Append(watches, w.date)
              /\ born' = Append(born, getTimestamp(w.heap, w.date))
    /\ last' = [op |-> "new WristWatch(Date)", result |-> Len(watches) + 1]
    /\ UNCHANGED held
    /\ ObjFrame

\* w.getDate(): the caller keeps the Date returned
GetDateCall ==
    /\ Len(heap) < MaxHeap
    /\ \E w \in Watches :
          LET g == getDate(heap, watches[w])
          IN  /\ heap' = g.heap
              /\ held' = held \cup {g.date}
              /\ last' = [op |-> "getDate", result |-> g.date]
    /\ UNCHANGED <<watches, born>>
    /\ ObjFrame

\* w.add(amount, unit): new WristWatch(addTime(this.date, amount, unit))
WatchAdd ==
    /\ \E w \in Watches, n \in ObjAmounts, u \in ObjUnits :
          ReturnWatch("add", add(heap[watches[w]], n, u))
    /\ ObjFrame

\* w.subtract(amount, unit)
WatchSubtract ==
    /\ \E w \in Watches, n \in ObjAmounts, u \in ObjUnits :
          ReturnWatch("subtract", subtract(heap[watches[w]], n, u))
    /\ ObjFrame

\* w.diff(other, unit)
WatchDiff ==
    /\ \E w \in Watches, other \in Watches, u \in ObjUnits :
          ReturnValue("diff", diff(heap[watches[w]], heap[watches[other]], u))
    /\ ObjFrame

\* w.format(): the default pattern
WatchFormat ==
    /\ \E w \in Watches :
          ReturnValue("format", format(heap[watches[w]], PatDefault))
    /\ ObjFrame

\* w.toRelative(referenceDate), with a Date of the caller or without one
WatchToRelative ==
    /\ \E w \in Watches, ref \in {<<>>} \cup {<<heap[r]>> : r \in held} :
          ReturnValue("toRelative", toRelative(heap[watches[w]], ref, now))
    /\ ObjFrame

\* w.equals(other): this.getTimestamp() === other.getTimestamp()
WatchEquals ==
    /\ \E w \in Watches, other \in Watches :
          ReturnValue("equals", equals(getTimestamp(heap, watches[w]),
                                       getTimestamp(heap, watches[other])))
    /\ ObjFrame

\* w.isBefore(other)
WatchIsBefore ==
    /\ \E w \in Watches, other \in Watches :
          ReturnValue("isBefore", isBefore(heap[watches[w]], heap[watches[other]]))
    /\ ObjFrame

\* w.isAfter(other)
WatchIsAfter ==
    /\ \E w \in Watches, other \in Watches :
          ReturnValue("isAfter", isAfter(heap[watches[w]], heap[watches[other]]))
    /\ ObjFrame

\* w.isBetween(start, end)
WatchIsBetween ==
    /\ \E w \in Watches, start \in Watches, end \in Watches :
          ReturnValue("isBetween",
              isBetween(heap[watches[w]], heap[watches[start]], heap[watches[end]]))
    /\ ObjFrame

\* w.toTimezone(timezone): null, or a new WristWatch
WatchToTimezone ==
    /\ \E w \in Watches, timezone \in ObjTimezones :
          LET converted == convertToTimezone(heap[watches[w]], timezone)
          IN  IF converted = <<>> THEN ReturnValue("toTimezone", 0)
              ELSE ReturnWatch("toTimezone", converted[1])
    /\ ObjFrame

\* w.toUTC()
WatchToUTC ==
    /\ \E w \in Watches : ReturnWatch("toUTC", convertToUTC(heap[watches[w]]))
    /\ ObjFrame

\* w.toLocal()
WatchToLocal ==
    /\ \E w \in Watches : ReturnWatch("toLocal", convertToLocal(heap[watches[w]]))
    /\ ObjFrame

Next ==
    \/ CreateDate \/ SetTime \/ ConstructFromNumber \/ ConstructFromDate
    \/ GetDateCall \/ WatchAdd \/ WatchSubtract \/ WatchDiff \/ WatchFormat
    \/ WatchToRelative \/ WatchEquals \/ WatchIsBefore \/ WatchIsAfter
    \/ WatchIsBetween \/ WatchToTimezone \/ WatchToUTC \/ WatchToLocal

Spec == Init /\ [][Next]_vars

---------------------------------------------------------------------------
(* Claims on add and subtract *)

\* the length of a fixed-duration unit, as a number
UnitLength(u) ==
    CASE u = "millisecond" -> Num(0, 1)
      [] u = "second"      -> Num(0, 1000)
      [] u = "minute"      -> Num(0, 60000)
      [] u = "hour"        -> Num(0, 3600000)
      [] u = "day"         -> Num(1, 0)
      [] u = "week"        -> Num(7, 0)

\* a number is a valid time value
InDateRange(t) ==
    /\ ~t.nan
    /\ \/ (t.d >= -MaxDateDays /\ t.d < MaxDateDays)
       \/ (t.d = MaxDateDays /\ t.ms = 0)

\* C1 as stated: for every Instant x, fixed-duration unit u and integer n,
\* subtract(add(x, n, u), n, u) has exactly the millisecond value of x.
C1_RoundTripAnyAmount ==
    (pc = "done" /\ unit \in FixedUnits) => NumEq(roundTrip, original)

\* C1 amended: for every Instant x, fixed-duration unit u and integer n such
\* that x + n * length(u) is a valid time value (at most 8.64e15 ms from the
\* epoch), subtract(add(x, n, u), n, u) has exactly the millisecond value of x.
C1_RoundTripFixed ==
    (/\ pc = "done"
     /\ unit \in FixedUnits
     /\ InDateRange(NumAdd(original, NumScale(amount, UnitLength(unit)))))
        => NumEq(roundTrip, original)

C1_Witness ==
    /\ pc = "done"
    /\ unit = "week"
    /\ amount = -MaxAmount
    /\ ~added.nan
    /\ added # original
    /\ roundTrip = original

\* the Gregorian leap-year rule and the month lengths
IsLeapYear(y) == (y % 4 = 0 /\ y % 100 # 0) \/ y % 400 = 0

DaysInMonth(y, m) ==
    IF m = 2 THEN (IF IsLeapYear(y) THEN 29 ELSE 28)
    ELSE IF m \in {4, 6, 9, 11} THEN 30 ELSE 31

Min(a, b) == IF a <= b THEN a ELSE b

\* the month n months from x's month, counted from year 0: year * 12 + monthIndex
TargetMonth == GetFullYear(original) * 12 + GetMonth(original) + amount
TargetYear  == TargetMonth \div 12
TargetDay   == Min(GetDate(original), DaysInMonth(TargetYear, (TargetMonth % 12) + 1))

\* the local date TargetYear-TargetMonth-TargetDay at x's time of day
MonthTarget ==
    UTC(Num(DaysFromCivil(TargetYear, (TargetMonth % 12) + 1, TargetDay),
            LocalTime(original).ms))

\* add(x, n, 'month') landed in the target month on the clamped day at x's time of day
LandsOnMonthTarget ==
    /\ ~added.nan
    /\ GetFullYear(added) = TargetYear
    /\ GetMonth(added) = TargetMonth % 12
    /\ GetDate(added) = TargetDay
    /\ LocalTime(added).ms = LocalTime(original).ms

YearTargetIsClamped ==
    /\ GetMonth(original) = 1
    /\ GetDate(original) = 29
    /\ ~IsLeapYear(GetFullYear(original) + amount)

\* the date the claim expects of add(x, n, 'year')
YearTarget ==
    UTC(Num(DaysFromCivil(GetFullYear(original) + amount,
                          GetMonth(original) + 1,
                          IF YearTargetIsClamped THEN 28 ELSE GetDate(original)),
            LocalTime(original).ms))

\* C3: add(x, n, 'year') of Feb 29 into a common year is Feb 28 of that year,
\* not Mar 1; for every other x it is the same month, day and time of day in
\* year x.year + n (stated for targets that are valid time values).
C3_AddYearClamps ==
    (pc = "added" /\ unit = "year" /\ InDateRange(YearTarget))
        => added = YearTarget

\* the part of C3 the code does satisfy: no Feb 29 into a common year
C3_AddYearOtherDates ==
    (pc = "added" /\ unit = "year" /\ InDateRange(YearTarget) /\ ~YearTargetIsClamped)
        => added = YearTarget

\* |a - b| <= n days
WithinDays(a, b, n) ==
    /\ ~a.nan /\ ~b.nan
    /\ NumLe(NumSub(a, b), Num(n, 0))
    /\ NumLe(NumSub(b, a), Num(n, 0))

\* the range of the property test: 1900-01-01 .. 2100-12-31 (UTC)
InPracticalRange(t) ==
    /\ NumGe(t, Num(DaysFromCivil(1900, 1, 1), 0))
    /\ NumLe(t, Num(DaysFromCivil(2100, 12, 31), 0))

---------------------------------------------------------------------------
(* Claims on format and parseCustom *)

\* the 12-hour clock of the claim: 0 -> 12, 13 -> 1
Hour12(h) == ((h + 11) % 12) + 1
Meridiem(h) == IF h < 12 THEN <<"A", "M">> ELSE <<"P", "M">>

\* C8: format expands h to the unpadded 12-hour hour, hh to the same padded
\* to two digits, A to AM or PM and a to am or pm: "h:mm A" gives "2:30 PM"
\* and "hh:mm:ss a" gives "02:30:45 pm" for 14:30:45.
C8_Format12Hour ==
    (pc = "formatted" /\ pattern \in {PatHmmA, PatHhmmssA}) =>
        LET h == GetHours(fmtDate)
            mm == PadStart(IntToStr(GetMinutes(fmtDate)), 2)
            ss == PadStart(IntToStr(GetSeconds(fmtDate)), 2)
        IN  formatted =
               IF pattern = PatHmmA
               THEN IntToStr(Hour12(h)) \o <<":">> \o mm \o <<" ">> \o Meridiem(h)
               ELSE PadStart(IntToStr(Hour12(h)), 2) \o <<":">> \o mm \o <<":">> \o ss
                        \o <<" ">> \o ToLowerCase(Meridiem(h))

\* what the code does with these patterns: h, hh, A and a are copied as they are
C8_CodeCopiesLetters ==
    (pc = "formatted" /\ pattern = PatHmmA) =>
        formatted = <<"h", ":">> \o PadStart(IntToStr(GetMinutes(fmtDate)), 2) \o <<" ", "A">>

\* the 24-hour hour the claim expects of each 12-hour text
Expected12HourParse ==
    CASE parseInput = TextUS230PM  -> 14
      [] parseInput = TextUS1230AM -> 0
      [] parseInput = TextUS1230PM -> 12
      [] parseInput = TextUS930AM  -> 9

\* C9: parseCustom with h or hh and A or a succeeds on matching input and
\* resolves the hour: "12/05/2025 2:30 PM" with "MM/DD/YYYY h:mm A" is a success
\* with hour 14 and minute 30, "12:30 AM" gives hour 0, "12:30 PM" hour 12.
C9_Parse12Hour ==
    (/\ pc = "parsed"
     /\ pattern = PatUSHmmA
     /\ parseInput \in {TextUS230PM, TextUS1230AM, TextUS1230PM, TextUS930AM})
        => /\ parsed.success
           /\ GetHours(parsed.value) = Expected12HourParse
           /\ GetMinutes(parsed.value) = 30

\* patterns composed only of YYYY, MM, DD, HH, mm, ss and separators
RoundTripPatterns ==
    GeneratedPatterns \cup {PatDefault, PatDate, PatCompact, PatTime, PatSlashes}

HasToken(pat, token) == \E i \in 1..Len(pat) : StartsWithAt(pat, i, token)

YearToken == <<"Y", "Y", "Y", "Y">>

C10_Covered ==
    /\ pattern \in RoundTripPatterns
    /\ \A i \in 1..Len(pattern) : pattern[i] \notin {"*", "[", "]"}
    /\ HasToken(pattern, YearToken) => GetFullYear(fmtDate) \in 1000..9999
    /\ (HasToken(pattern, <<"M", "M">>) /\ HasToken(pattern, <<"D", "D">>)
          /\ ~HasToken(pattern, YearToken))
         => ~(GetMonth(fmtDate) = 1 /\ GetDate(fmtDate) = 29)

---------------------------------------------------------------------------
(* Claims on the WristWatch value and on comparison *)

\* C5: no operation mutates an existing Instant.  After any sequence of add,
\* subtract, diff, format, toRelative, comparison, toTimezone/toUTC/toLocal and
\* getDate calls, and of setTime calls on the Date getDate() returned or on the
\* Date passed to the constructor, getTimestamp() of every WristWatch is the
\* value it had at construction; the Date of a WristWatch is never one the
\* caller holds, and every operation returns a new value (no two WristWatch
\* values share a Date).
C5_NoMutation ==
    /\ \A w \in Watches : getTimestamp(heap, watches[w]) = born[w]
    /\ \A w \in Watches : watches[w] \notin held
    /\ \A w1, w2 \in Watches : w1 # w2 => watches[w1] # watches[w2]

\* the caller has changed the Date it built a WristWatch from, and a Date
\* that getDate() returned, and the WristWatch still has its first value
C5_Witness ==
    /\ last.op = "setTime"
    /\ \E w \in Watches :
          /\ ~born[w].nan
          /\ getTimestamp(heap, watches[w]) = born[w]
          /\ \A r \in held : heap[r] # born[w]
          /\ Cardinality(held) >= 2

\* the time values of the WristWatch values that are Instants (not Invalid Date)
Instants == { heap[watches[w]] : w \in {v \in Watches : ~heap[watches[v]].nan} }

BoolToNat(b) == IF b THEN 1 ELSE 0

\* C6: for every pair of Instants a, b exactly one of equals(a, b),
\* isBefore(a, b), isAfter(a, b) is true, and isBefore(a, b) holds iff
\* isAfter(b, a) holds.
C6_Trichotomy ==
    \A a, b \in Instants :
        /\ BoolToNat(equals(a, b)) + BoolToNat(isBefore(a, b)) + BoolToNat(isAfter(a, b)) = 1
        /\ isBefore(a, b) <=> isAfter(b, a)

\* equals has just answered true for two WristWatch values and there is a
\* third with another time value
C6_Witness ==
    /\ last.op = "equals"
    /\ last.result = TRUE
    /\ Cardinality(Instants) >= 2
    /\ Len(watches) >= 3

\* C7: for all Instants x, start, end, isBetween(x, start, end) equals
\* (!isBefore(x, start) && !isAfter(x, end)); with start <= end both
\* isBetween(start, start, end) and isBetween(end, start, end) are true.
C7_IsBetweenInclusive ==
    \A x, start, end \in Instants :
        /\ isBetween(x, start, end) <=> (~isBefore(x, start) /\ ~isAfter(x, end))
        /\ NumLe(start, end) =>
              isBetween(start, start, end) /\ isBetween(end, start, end)

\* isBetween has just answered true and there are two different Instants
C7_Witness ==
    /\ last.op = "isBetween"
    /\ last.result = TRUE
    /\ Cardinality(Instants) >= 2

---------------------------------------------------------------------------
(* Claims on the parsing surface *)

\* the inputs of the scenario that cannot be parsed: wrong type, blank,
\* unparsable text, text that does not match the format, format that is
\* blank, of the wrong type or not a regular expression
C11_BadInput ==
    CASE fn = "parseISO" ->
            \/ arg.type # "string"
            \/ IsBlank(arg.str)
            \/ arg.str \in {TextBad, TextLetters, TextMonth13, TextMonth00}
      [] fn = "parse" ->
            \/ arg.type \notin {"string", "number"}
            \/ arg.type = "string" /\ IsBlank(arg.str)
            \/ arg.type = "string"
                 /\ arg.str \in {TextBad, TextLetters, TextMonth13, TextMonth00}
      [] fn = "parseCustom" ->
            \/ arg.type # "string"
            \/ fmtArg.type # "string"
            \/ IsBlank(arg.str)
            \/ IsBlank(fmtArg.str)
            \/ arg.str \in {TextBad, TextLetters}
            \/ fmtArg.str = PatStarFirst
            \/ fmtArg.str = PatDots /\ arg.str = TextISODate
            \/ fmtArg.str = PatDate /\ arg.str = TextDots

\* C11: the parsing surface never throws.  For every input (empty, blank or
\* unparsable string, argument of the wrong type, input that does not match
\* the pattern, pattern with regular expression metacharacters) parseISO,
\* parseCustom and parse return, and for an input that cannot be parsed they
\* return a failure with a non-empty error string.
C11_NeverThrows ==
    pc = "returned" =>
        /\ ~IsThrown(answer)
        /\ ~answer.success => answer.error # ""
        /\ C11_BadInput => ~answer.success

\* the pattern '*YYYY' makes new RegExp throw, and parseCustom returns the
\* failure of its catch block
C11_Witness ==
    /\ pc = "returned"
    /\ fn = "parseCustom"
    /\ arg = Str(TextStar)
    /\ fmtArg = Str(PatStarFirst)
    /\ ~IsThrown(answer)
    /\ ~answer.success
    /\ answer.error = "Failed to parse custom format"

\* C12: parse dispatches on the type of its input.  A number always yields a
\* success wrapping parseTimestamp(input); a string yields a success if ISO
\* parsing succeeds or else if the host's date-string parsing succeeds, and a
\* failure only if both fail; an input of any other type yields a failure.
C12_ParseDispatch ==
    (pc = "returned" /\ fn = "parse") =>
        CASE arg.type = "number" -> answer = Success(parseTimestamp(arg.num))
          [] arg.type = "string" ->
                \E lenient \in BOOLEAN :
                    /\ answer.success <=>
                          (parseISO(arg, lenient).success
                             \/ ~IsNaN(DateParse(arg.str, lenient)))
                    /\ answer.success =>
                          answer.value = NewDate(DateParse(arg.str, lenient))
          [] OTHER -> ~answer.success

\* parse of a number past the range of Date is a success
C12_Witness ==
    /\ pc = "returned"
    /\ fn = "parse"
    /\ arg = Number(Num(MaxDateDays, 1))
    /\ answer.success

---------------------------------------------------------------------------
(* C13: diff for the fixed-duration units *)

\* the sign of a number: -1, 0 or 1
Sign(x) == IF NumLt(x, Num(0, 0)) THEN -1 ELSE IF NumGt(x, Num(0, 0)) THEN 1 ELSE 0

\* a valid difference is a whole number of units
IsMultipleOf(x, len) ==
    IF len > MsPerDay THEN x.d % (len \div MsPerDay) = 0 /\ x.ms = 0
    ELSE x.ms % len = 0

\* the case of C13: diff returned for two valid dates and a fixed unit
C13_Case ==
    /\ pc = "returned" /\ fn = "diff"
    /\ unit \in FixedUnits
    /\ ~dateA.nan /\ ~dateB.nan

\* what C13 says apart from the product: the quotient of a - b by the length
\* of the unit, with the sign of a - b, and the negation of diff(b, a, u)
C13_Quotient ==
    /\ answer.num = NumSub(dateA, dateB)
    /\ Num(0, answer.den) = UnitLength(unit)
    /\ Sign(answer.num) = Sign(NumSub(dateA, dateB))
    /\ diff(dateB, dateA, unit).num = NumSub(Num(0, 0), answer.num)
    /\ diff(dateB, dateA, unit).den = answer.den

\* C13 as stated: diff(a, b, u) is (a - b) / unitLength, so that
\* diff(a, b, u) * unitLength = a - b, its sign is the sign of a - b and
\* diff(a, b, u) = -diff(b, a, u). The product is computed in doubles and is
\* not always a - b.
C13_DiffExactProduct ==
    C13_Case => C13_Quotient /\ TimesLengthIsExact(answer.num, answer.den)

\* C13 amended: diff(a, b, u) is the double nearest to (a - b) / unitLength,
\* its sign is the sign of a - b and diff(a, b, u) = -diff(b, a, u); the
\* product diff(a, b, u) * unitLength is a - b whenever a - b is a whole
\* number of units (always for 'millisecond').
C13_DiffFixedUnits ==
    C13_Case =>
        /\ C13_Quotient
        /\ IsMultipleOf(answer.num, answer.den)
                => TimesLengthIsExact(answer.num, answer.den)

\* C13 witness: a difference of -2 hours asked in hours, whose product with
\* the length of the hour is the difference again
C13_Witness ==
    /\ C13_Case
    /\ unit = "hour"
    /\ answer.num = NumSub(Num(0, 0), Num(0, 7200000))
    /\ TimesLengthIsExact(answer.num, answer.den)

---------------------------------------------------------------------------
(* C14: the bands of toRelative *)

\* floor(x / len) for x >= 0 and a length that divides a day or is a whole
\* number of days
FloorDiv(x, len) ==
    IF len.d > 0 THEN x.d \div len.d
    ELSE x.d * (MsPerDay \div len.ms) + x.ms \div len.ms

\* the bands of the claim, by ascending limit: <<limit, unit, unit length>>;
\* the last band has no limit
RelativeBands ==
    << <<Num(0, 60 * 1000), "second", Num(0, 1000)>>,
       <<Num(0, 60 * 60 * 1000), "minute", Num(0, 60 * 1000)>>,
       <<Num(1, 0), "hour", Num(0, 60 * 60 * 1000)>>,
       <<Num(7, 0), "day", Num(1, 0)>>,
       <<Num(30, 0), "week", Num(7, 0)>>,
       <<Num(365, 0), "month", Num(30, 0)>>,
       <<NaN, "year", Num(365, 0)>> >>

\* the first band whose limit is above d
BandOf(d) ==
    LET under == {i \in 1..6 : NumLt(d, RelativeBands[i][1])}
    IN  IF under = {} THEN 7 ELSE CHOOSE i \in under : \A k \in under : i <= k

\* the text the claim gives for the instant at the reference + offset
RelativeText(offset) ==
    LET past == NumLt(offset, Num(0, 0))
        d == IF past THEN NumSub(Num(0, 0), offset) ELSE offset
        band == RelativeBands[BandOf(d)]
        n == FloorDiv(d, band[3])
        name == IF n # 1 THEN RelativeUnitName(band[2]) \o <<"s">>
                ELSE RelativeUnitName(band[2])
        text == IntToStr(n) \o <<" ">> \o name
    IN  IF NumLt(d, Num(0, 10 * 1000)) THEN <<"j", "u", "s", "t", " ", "n", "o", "w">>
        ELSE IF past THEN text \o <<" ", "a", "g", "o">>
        ELSE <<"i", "n", " ">> \o text

\* C14: toRelative(instant, reference) is "just now" under 10 s, else the
\* floor of the distance in the unit of its band, plural unless it is 1,
\* "<n> <unit> ago" for an instant before the reference and "in <n> <unit>"
\* otherwise; 5000 ms gives "just now", -7200000 ms "2 hours ago" and
\* +604800000 ms "in 1 week".
C14_RelativeBands ==
    pc = "returned" /\ fn = "toRelative" /\ ~dateA.nan =>
        LET offset == NumSub(dateA, dateB)
        IN  /\ answer = RelativeText(offset)
            /\ offset = Num(0, 5000) => answer = <<"j", "u", "s", "t", " ", "n", "o", "w">>
            /\ offset = NumSub(Num(0, 0), Num(0, 7200000))
                    => answer = <<"2", " ", "h", "o", "u", "r", "s", " ", "a", "g", "o">>
            /\ offset = Num(7, 0) => answer = <<"i", "n", " ", "1", " ", "w", "e", "e", "k">>

\* C14 witness: toRelative returned "in 1 week" for an instant 604800000 ms
\* after the reference
C14_Witness ==
    /\ pc = "returned" /\ fn = "toRelative"
    /\ NumSub(dateA, dateB) = Num(7, 0)
    /\ answer = <<"i", "n", " ", "1", " ", "w", "e", "e", "k">>

---------------------------------------------------------------------------
(* C15: the conversions keep the timestamp *)

\* the three comparisons give the same answers for x and y against other
SameComparisons(x, y, other) ==
    /\ equals(x, other) = equals(y, other)
    /\ isBefore(x, other) = isBefore(y, other)
    /\ isAfter(x, other) = isAfter(y, other)
    /\ equals(other, x) = equals(other, y)
    /\ isBefore(other, x) = isBefore(other, y)
    /\ isAfter(other, x) = isAfter(other, y)

\* C15: for an Instant x, toTimezone(x, tz) returns null when tz is not a
\* valid identifier and otherwise a value with the timestamp of x; toUTC(x)
\* and toLocal(x) return a value with the timestamp of x; equals, isBefore
\* and isAfter against another Instant answer the same before and after.
C15_ConversionsKeepTimestamp ==
    pc = "returned" /\ ~dateA.nan =>
        /\ fn = "toTimezone" /\ arg.id = "Invalid/Timezone" => answer = <<>>
        /\ fn = "toTimezone" /\ arg.id \in {"UTC", "America/New_York"} =>
                /\ answer = <<dateA>>
                /\ SameComparisons(answer[1], dateA, dateB)
        /\ fn \in {"toUTC", "toLocal"} =>
                /\ answer = dateA
                /\ SameComparisons(answer, dateA, dateB)

\* C15 witness: toTimezone returned a value for America/New_York, for an
\* Instant that is before the other one
C15_Witness ==
    /\ pc = "returned" /\ fn = "toTimezone" /\ ~dateA.nan
    /\ arg.id = "America/New_York"
    /\ answer # <<>>
    /\ isBefore(dateA, dateB)

---------------------------------------------------------------------------
(* C16: day and week across a daylight-saving transition *)

\* the number of days the calendar units 'day' and 'week' stand for
CalendarDays(u) == IF u = "week" THEN 7 ELSE 1

\* C16: add with 'day' or 'week' lands on the calendar day amount days (or
\* weeks) later at the same local time of day, also across a daylight-saving
\* transition, and add with 'hour', 'minute' or 'second' adds exact elapsed
\* time.
C16_DayKeepsWallClock ==
    pc = "returned" /\ fn = "add" /\ ~dateA.nan =>
        /\ unit \in {"day", "week"} =>
                /\ LocalTime(answer).ms = LocalTime(dateA).ms
                /\ LocalTime(answer).d = LocalTime(dateA).d + amount * CalendarDays(unit)
        /\ unit \in {"hour", "minute", "second"} =>
                answer = NumAdd(dateA, NumScale(amount, UnitLength(unit)))

\* what the code does instead: every fixed unit, 'day' and 'week' included,
\* adds amount times its length of elapsed milliseconds
C16_CodeAddsElapsedTime ==
    pc = "returned" /\ fn = "add" /\ ~dateA.nan /\ unit \in FixedUnits =>
        answer = NumAdd(dateA, NumScale(amount, UnitLength(unit)))

---------------------------------------------------------------------------
(* C17: the segmentation of parseCustom against the scan of format *)

\* the parts parseCustom derives from a pattern
ParseSegments(pat) == Segment(pat, <<>>, 0, Len(pat) * 2).parts

\* C17: for every pattern, the token and literal segments parseCustom
\* derives are the segments format consumes when it scans the pattern, with
\* the day names dddd and ddd and bracketed literals included.
C17_SameSegmentation ==
    pc = "reparsed" => ParseSegments(pattern) = FormatSegments(pattern, 1, FALSE)

\* where the code does agree: patterns without brackets and without ddd
C17_CodeAgreesOnCommonTokens ==
    pc = "reparsed" /\ ~HasToken(pattern, <<"[">>) /\ ~HasToken(pattern, <<"]">>)
        /\ ~HasToken(pattern, <<"d", "d", "d">>)
        => ParseSegments(pattern) = FormatSegments(pattern, 1, FALSE)

---------------------------------------------------------------------------
(* C18: format takes the longest token first *)

\* the token table of format, as a set
TokenTable == {FormatTokenKeys[k] : k \in 1..Len(FormatTokenKeys)}

\* the tokens of the table that are a prefix of the pattern from i on
PrefixTokens(pat, i) == {t \in TokenTable : StartsWithAt(pat, i, t)}

\* the scan of the claim: the longest prefix token is expanded and skipped,
\* any other character is copied
RECURSIVE LongestFirstScan(_, _, _)
LongestFirstScan(date, pat, i) ==
    IF i > Len(pat) THEN <<>>
    ELSE IF PrefixTokens(pat, i) = {} THEN <<pat[i]>> \o LongestFirstScan(date, pat, i + 1)
    ELSE LET longest == CHOOSE t \in PrefixTokens(pat, i) :
                            \A u \in PrefixTokens(pat, i) : Len(u) <= Len(t)
         IN  FormatToken(date, longest) \o LongestFirstScan(date, pat, i + Len(longest))

\* C18: on a pattern without brackets format emits, position by position,
\* the expansion of the longest token that is a prefix of the rest of the
\* pattern, or else copies one character; "MMMMM" is MMMM then M, "YYY" is
\* YY then the letter Y, and the separators of "HH:mm:ss" pass through.
C18_LongestTokenFirst ==
    (/\ pc = "formatted"
     /\ ~fmtDate.nan
     /\ ~HasToken(pattern, <<"[">>) /\ ~HasToken(pattern, <<"]">>)) =>
        /\ formatted = LongestFirstScan(fmtDate, pattern, 1)
        /\ pattern = PatFiveM =>
                formatted = MONTH_NAMES[GetMonth(fmtDate) + 1] \o IntToStr(GetMonth(fmtDate) + 1)
        /\ pattern = PatThreeY =>
                formatted = PadStart(IntToStr(JsRem(GetFullYear(fmtDate), 100)), 2) \o <<"Y">>
        /\ pattern = PatTime =>
                /\ Len(formatted) = 8
                /\ formatted[3] = ":" /\ formatted[6] = ":"

\* C18 witness: "MMMMM" formatted for a date of December is "December12"
C18_Witness ==
    /\ pc = "formatted"
    /\ pattern = PatFiveM
    /\ formatted = <<"D", "e", "c", "e", "m", "b", "e", "r", "1", "2">>

---------------------------------------------------------------------------
(* C19: bracket literals of format *)

\* position i of the pattern lies between a [ and the next ]
InBrackets(pat, i) ==
    /\ pat[i] \notin {"[", "]"}
    /\ \E j \in 1..(i - 1) :
          /\ pat[j] = "["
          /\ \A k \in (j + 1)..(i - 1) : pat[k] # "]"

\* the end of the run of positions outside brackets that starts at i
RECURSIVE OutsideRunEnd(_, _)
OutsideRunEnd(pat, i) ==
    IF i < Len(pat) /\ pat[i + 1] \notin {"[", "]"} THEN OutsideRunEnd(pat, i + 1) ELSE i

\* the output of the claim: bracket characters give nothing, a character
\* in brackets gives itself, a run outside brackets is formatted on its own
RECURSIVE BracketText(_, _, _)
BracketText(date, pat, i) ==
    IF i > Len(pat) THEN <<>>
    ELSE IF pat[i] \in {"[", "]"} THEN BracketText(date, pat, i + 1)
    ELSE IF InBrackets(pat, i) THEN <<pat[i]>> \o BracketText(date, pat, i + 1)
    ELSE LET runEnd == OutsideRunEnd(pat, i)
         IN  format(date, SubSeq(pat, i, runEnd)) \o BracketText(date, pat, runEnd + 1)

\* C19: format copies every character between a [ and the next ] verbatim,
\* without expanding tokens, and never outputs a bracket: "[The year is]
\* YYYY" gives "The year is " and the year, "[YYYY]" gives "YYYY".
C19_BracketLiterals ==
    pc = "formatted" /\ ~fmtDate.nan =>
        /\ formatted = BracketText(fmtDate, pattern, 1)
        /\ \A i \in 1..Len(formatted) : formatted[i] \notin {"[", "]"}
        /\ pattern = PatYearIs =>
                formatted = <<"T", "h", "e", " ", "y", "e", "a", "r", " ", "i", "s", " ">>
                                \o IntToStr(GetFullYear(fmtDate))
        /\ pattern = PatBracketYear => formatted = <<"Y", "Y", "Y", "Y">>

\* C19 witness: "[YYYY]" was formatted to the text "YYYY"
C19_Witness ==
    /\ pc = "formatted"
    /\ pattern = PatBracketYear
    /\ formatted = <<"Y", "Y", "Y", "Y">>

---------------------------------------------------------------------------
(* C20: parseCustom matches the whole input *)

\* a character is of the class a token captures
InClass(c, kind) == IF kind = "digits" THEN IsDigit(c) ELSE IsAlpha(c)

\* the input from pos on is exactly the parts from k on: a token is a run
\* of its class of an allowed length, a literal is that same character
RECURSIVE WholeMatch(_, _, _, _)
WholeMatch(parts, k, input, pos) ==
    IF k > Len(parts) THEN pos = Len(input) + 1
    ELSE IF parts[k].type = "token"
    THEN LET r == ParseTokenRegex(parts[k].value)
             most == IF r.max < 0 THEN Len(input) - pos + 1 ELSE r.max
         IN  \E w \in r.min..most :
                /\ pos + w - 1 <= Len(input)
                /\ \A j \in pos..(pos + w - 1) : InClass(input[j], r.kind)
                /\ WholeMatch(parts, k + 1, input, pos + w)
    ELSE /\ pos <= Len(input)
         /\ input[pos] = parts[k].value[1]
         /\ WholeMatch(parts, k + 1, input, pos + 1)

\* parseCustom returned for an input and a pattern that are strings
C20_Case ==
    /\ pc = "returned" /\ fn = "parseCustom"
    /\ arg.type = "string" /\ fmtArg.type = "string"

\* C20: parseCustom succeeds only if the whole input matches the pattern,
\* every token by a run of its class and every literal character of the
\* pattern, a regex metacharacter such as * included, by that same character.
C20_WholeInputMatch ==
    C20_Case /\ answer.success =>
        WholeMatch(ParseSegments(fmtArg.str), 1, arg.str, 1)

\* where the code does so: every pattern without a *
C20_CodeMatchesWithoutStar ==
    C20_Case /\ answer.success /\ ~HasToken(fmtArg.str, <<"*">>) =>
        WholeMatch(ParseSegments(fmtArg.str), 1, arg.str, 1)

\* a success without a * to show for it
C20_StarSkipped ==
    /\ C20_Case /\ answer.success
    /\ fmtArg.str = PatStar
    /\ arg.str = TextNoStar

---------------------------------------------------------------------------
(* C21: the defaults of parseCustom *)

\* the pattern has one of the tokens among its parts
HasPart(pat, tokens) ==
    \E k \in 1..Len(ParseSegments(pat)) :
        ParseSegments(pat)[k].type = "token" /\ ParseSegments(pat)[k].value \in tokens

YearTokens == {<<"Y", "Y", "Y", "Y">>, <<"Y", "Y">>}
MonthNameTokens == {<<"M", "M", "M", "M">>, <<"M", "M", "M">>}
MonthTokens == MonthNameTokens \cup {<<"M", "M">>, <<"M">>}
DayTokens == {<<"D", "D">>, <<"D">>}
HourTokens == {<<"H", "H">>, <<"H">>}
MinuteTokens == {<<"m", "m">>, <<"m">>}
SecondTokens == {<<"s", "s">>, <<"s">>}
MillisecondTokens == {<<"S", "S", "S">>}

\* the text the token matched in parseInput, <<>> when it matched nothing
CapturedOf(token) ==
    LET parts == ParseSegments(pattern)
        tokenOrder == TokenOrder(parts)
        m == MatchAtoms(BuildRegex(parts, 1, <<>>, 0), 1, parseInput, 1,
                        [g \in 1..Len(tokenOrder) |-> <<>>])
    IN  ValueOf(tokenOrder, m.caps, token, Len(tokenOrder))

\* the number read for a field: of its long token, else of its short token,
\* else the default
FieldOf(long, short, default) ==
    IF HasPart(pattern, {long}) THEN ParseInt(CapturedOf(long))
    ELSE IF HasPart(pattern, {short}) THEN ParseInt(CapturedOf(short))
    ELSE default

\* every field read from the input is in its calendar range, so that the
\* Date constructor carries nothing over into another field
FieldsInRange ==
    LET y == IF HasPart(pattern, {<<"Y", "Y", "Y", "Y">>})
             THEN ParseInt(CapturedOf(<<"Y", "Y", "Y", "Y">>))
             ELSE IF HasPart(pattern, {<<"Y", "Y">>}) THEN 2000 + ParseInt(CapturedOf(<<"Y", "Y">>))
             ELSE GetFullYear(now)
        m == FieldOf(<<"M", "M">>, <<"M">>, 1)
        d == FieldOf(<<"D", "D">>, <<"D">>, 1)
    IN  /\ m \in 1..12
        /\ d >= 1
        /\ d <= (IF HasPart(pattern, MonthNameTokens) THEN 28 ELSE DaysInMonth(y, m))
        /\ FieldOf(<<"H", "H">>, <<"H">>, 0) <= 23
        /\ FieldOf(<<"m", "m">>, <<"m">>, 0) <= 59
        /\ FieldOf(<<"s", "s">>, <<"s">>, 0) <= 59

\* the fields of the result whose tokens are absent have their defaults,
\* and YY gives 2000 + yy
C21_Defaults ==
    /\ ~HasPart(pattern, YearTokens) => GetFullYear(parsed.value) = GetFullYear(now)
    /\ ~HasPart(pattern, MonthTokens) => GetMonth(parsed.value) + 1 = 1
    /\ ~HasPart(pattern, DayTokens) => GetDate(parsed.value) = 1
    /\ ~HasPart(pattern, HourTokens) => GetHours(parsed.value) = 0
    /\ ~HasPart(pattern, MinuteTokens) => GetMinutes(parsed.value) = 0
    /\ ~HasPart(pattern, SecondTokens) => GetSeconds(parsed.value) = 0
    /\ ~HasPart(pattern, MillisecondTokens) => GetMilliseconds(parsed.value) = 0
    /\ HasPart(pattern, {<<"Y", "Y">>}) /\ ~HasPart(pattern, {<<"Y", "Y", "Y", "Y">>})
            => GetFullYear(parsed.value) = 2000 + ParseInt(CapturedOf(<<"Y", "Y">>))

\* C21 as stated: in every successful parseCustom result each field whose
\* token is absent from the pattern has its default (the current year,
\* month 1, day 1, hour, minute, second, millisecond 0) and YY gives the
\* year 2000 + yy.
C21_DefaultsInEveryResult ==
    pc = "parsed" /\ parsed.success => C21_Defaults

\* C21 amended: the same, for the results whose fields read from the input
\* are all in their calendar range; a field out of range (hour 25, day 31
\* of February) is carried over by the Date constructor into the fields
\* above it, absent ones included.
C21_DefaultsInRange ==
    pc = "parsed" /\ parsed.success /\ FieldsInRange => C21_Defaults

\* C21 witness: "14:30:45" parsed with "HH:mm:ss" is 14:30:45 on January 1
\* of the current year
C21_Witness ==
    /\ pc = "parsed" /\ parsed.success
    /\ pattern = PatTime /\ parseInput = TextTime
    /\ GetFullYear(parsed.value) = GetFullYear(now)
    /\ GetMonth(parsed.value) = 0 /\ GetDate(parsed.value) = 1
    /\ GetHours(parsed.value) = 14

---------------------------------------------------------------------------
(* C22: month names that parseCustom does not know *)

\* the month of the claim for a letter run: the number of the name of the
\* table that the run spells in any letter case, 1 when there is none
MonthOfName(table, run) ==
    IF \E n \in 1..12 : ToLowerCase(table[n]) = ToLowerCase(run)
    THEN CHOOSE n \in 1..12 : ToLowerCase(table[n]) = ToLowerCase(run)
    ELSE 1

\* parseCustom returned for a pattern with MMMM or MMM and an input that
\* matches the pattern
C22_Case ==
    /\ pc = "parsed"
    /\ HasPart(pattern, MonthNameTokens)
    /\ WholeMatch(ParseSegments(pattern), 1, parseInput, 1)

\* C22: with MMMM or MMM in the pattern a letter run that is no month name
\* of the table still gives a success, with month 1; a name of the table
\* in any letter case gives its month number.
C22_UnknownMonthName ==
    C22_Case =>
        /\ parsed.success
        /\ FieldsInRange =>
              GetMonth(parsed.value) + 1 =
                  (IF HasPart(pattern, {<<"M", "M", "M", "M">>})
                   THEN MonthOfName(MONTH_NAMES, CapturedOf(<<"M", "M", "M", "M">>))
                   ELSE MonthOfName(MONTH_NAMES_SHORT, CapturedOf(<<"M", "M", "M">>)))
        /\ parseInput \in {TextLongUnknown, TextShortUnknown} => GetMonth(parsed.value) + 1 = 1
        /\ parseInput \in {TextLong, TextLongLower, TextShortMonth} => GetMonth(parsed.value) + 1 = 12

\* C22 witness: "Smarch 5, 2025" parsed with "MMMM D, YYYY" is a success
\* in January
C22_Witness ==
    /\ C22_Case
    /\ pattern = PatLong /\ parseInput = TextLongUnknown
    /\ parsed.success
    /\ GetMonth(parsed.value) = 0 /\ GetDate(parsed.value) = 5

---------------------------------------------------------------------------
(* C23: the iteration limit of the segmentation loop *)

ExceededIterations == "Format parsing exceeded maximum iterations"

\* the number of characters of the pattern that the parts stand for
RECURSIVE PartsLength(_)
PartsLength(parts) ==
    IF parts = <<>> THEN 0 ELSE Len(Head(parts).value) + PartsLength(Tail(parts))

\* parseCustom has segmented the pattern
C23_Case == pc \in {"parsed", "reparsed"}

\* limits to run the loop with: none, few, the length, twice the length
IterationLimits == {0, 1, 2, Len(pattern), 2 * Len(pattern)}

\* C23: the segmentation loop stops after at most the limit of iterations,
\* which parseCustom sets to twice the length of the pattern, having used up
\* the pattern if it stops earlier; parseCustom returns the failure 'Format
\* parsing exceeded maximum iterations' if the limit is reached.
C23_BoundedSegmentation ==
    C23_Case =>
        /\ \A limit \in IterationLimits :
              LET r == Segment(pattern, <<>>, 0, limit)
              IN  /\ r.iterations <= limit
                  /\ Len(r.parts) = r.iterations
                  /\ r.iterations < limit => PartsLength(r.parts) = Len(pattern)
        /\ Segment(pattern, <<>>, 0, 2 * Len(pattern)).iterations >= 2 * Len(pattern)
              => parsed = Failure(ExceededIterations)

\* C23 witness: the loop stopped by a limit of 2 after 2 of the 3 parts of
\* "MMM D", and parseCustom went through all 3
C23_Witness ==
    /\ pc = "parsed"
    /\ pattern = PatMonthDay
    /\ Segment(pattern, <<>>, 0, 2).iterations = 2
    /\ Segment(pattern, <<>>, 0, 2 * Len(pattern)).iterations = 3

---------------------------------------------------------------------------
(* C30: the iteration guard of parseCustom is never reached *)

\* C30: for a pattern that is not empty every iteration of the loop uses up
\* at least one character, so the loop ends within length(pattern)
\* iterations, below the limit of 2 x length(pattern), and parseCustom does
\* not return 'Format parsing exceeded maximum iterations'.
C30_GuardUnreachable ==
    C23_Case /\ Len(pattern) > 0 =>
        LET r == Segment(pattern, <<>>, 0, 2 * Len(pattern))
        IN  /\ \A k \in 1..Len(r.parts) : Len(r.parts[k].value) >= 1
            /\ PartsLength(r.parts) = Len(pattern)
            /\ r.iterations <= Len(pattern)
            /\ r.iterations < 2 * Len(pattern)
            /\ parsed.error # ExceededIterations

\* C30 witness: every part of "D/M" is one character, so its 3 parts took
\* 3 iterations, the most a pattern of length 3 can take, of a limit of 6
C30_Witness ==
    /\ pc = "parsed"
    /\ pattern = PatDayMonth /\ parseInput = TextDayMonth
    /\ Segment(pattern, <<>>, 0, 2 * Len(pattern)).iterations = 3
    /\ parsed.success

---------------------------------------------------------------------------
(* C24: diff by month and by year *)

\* diff returned for two valid dates and the unit u
DiffReturned(u) ==
    /\ pc = "returned" /\ fn = "diff" /\ unit = u
    /\ ~dateA.nan /\ ~dateB.nan

\* a's (month, day) is earlier in the year than b's
EarlierInYear(a, b) ==
    \/ GetMonth(a) < GetMonth(b)
    \/ GetMonth(a) = GetMonth(b) /\ GetDate(a) < GetDate(b)

\* the whole number a result of diff stands for
WholeNumber(r) == r.num.ms + r.num.d * MsPerDay

---------------------------------------------------------------------------
(* C25: diff by month and by year with the arguments swapped *)

\* diff(a, b, u) + diff(b, a, u) for the call that returned
SwappedSum == WholeNumber(answer) + WholeNumber(diff(dateB, dateA, unit))

\* the two dates are between 1900 and 2100
BetweenPracticalYears ==
    /\ GetFullYear(dateA) \in 1900..2100
    /\ GetFullYear(dateB) \in 1900..2100

\* C25: for Instants a, b between 1900 and 2100 and the units month and
\* year, diff(a, b, u) is not NaN and |diff(a, b, u) + diff(b, a, u)| <= 1.
C25_SwapNegatesUpToOne ==
    (DiffReturned("month") \/ DiffReturned("year")) /\ BetweenPracticalYears =>
        /\ ~answer.nan
        /\ ~diff(dateB, dateA, unit).nan
        /\ SwappedSum >= -1
        /\ SwappedSum <= 1

\* C25 witness: two dates on different days of the month, for which the two
\* results of diff by month add up to -1
C25_Witness ==
    /\ DiffReturned("month") /\ BetweenPracticalYears
    /\ GetDate(dateA) # GetDate(dateB)
    /\ SwappedSum = -1

---------------------------------------------------------------------------
(* C26: adding months and the order of two Instants *)

\* add returned for dateA and the unit month; the other Instant is dateB
AddMonthReturned ==
    /\ pc = "returned" /\ fn = "add" /\ unit = "month"
    /\ ~dateA.nan /\ ~dateB.nan

\* dateB with the same months added
OtherAdded == add(dateB, amount, "month")

\* the local calendar day of an Instant, as a day number
LocalDay(t) == LocalTime(t).d

\* C26 as stated: for Instants x <= y and every n, add(x, n, 'month') <=
\* add(y, n, 'month').
C26_AddMonthKeepsOrder ==
    AddMonthReturned =>
        /\ NumLe(dateA, dateB) => NumLe(answer, OtherAdded)
        /\ NumLe(dateB, dateA) => NumLe(OtherAdded, answer)

\* C26 amended: for Instants x <= y and every n the calendar day of
\* add(x, n, 'month') is not after the calendar day of add(y, n, 'month'),
\* so the two results are in order unless they fall on the same day (both
\* results being valid dates).
C26_AddMonthKeepsDayOrder ==
    AddMonthReturned /\ ~answer.nan /\ ~OtherAdded.nan =>
        /\ NumLe(dateA, dateB) =>
              /\ LocalDay(answer) <= LocalDay(OtherAdded)
              /\ LocalDay(answer) # LocalDay(OtherAdded) => NumLt(answer, OtherAdded)
        /\ NumLe(dateB, dateA) =>
              /\ LocalDay(OtherAdded) <= LocalDay(answer)
              /\ LocalDay(answer) # LocalDay(OtherAdded) => NumLt(OtherAdded, answer)

\* C26 witness: January 30 at 12:00 and January 31 at 08:00 plus one month
\* are both on February 28, the earlier Instant at the later time
C26_Witness ==
    /\ AddMonthReturned
    /\ amount = 1
    /\ NumLt(dateA, dateB)
    /\ GetDate(dateA) = 30 /\ GetDate(dateB) = 31
    /\ LocalDay(answer) = LocalDay(OtherAdded)
    /\ GetDate(answer) = 28
    /\ NumGt(answer, OtherAdded)

---------------------------------------------------------------------------
(* C27: diff by month against add by month *)

\* b with the months of diff(a, b, 'month') added
MonthsAddedBack == add(dateB, WholeNumber(answer), "month")

\* C27: for a >= b, k = diff(a, b, 'month') is at least 0 and
\* add(b, k, 'month') <= a; for a <= b, k is at most 0 and
\* add(b, k, 'month') >= a.
C27_DiffMonthNeverOvershoots ==
    DiffReturned("month") =>
        /\ NumGe(dateA, dateB) =>
              WholeNumber(answer) >= 0 /\ NumLe(MonthsAddedBack, dateA)
        /\ NumLe(dateA, dateB) =>
              WholeNumber(answer) <= 0 /\ NumGe(MonthsAddedBack, dateA)

\* what the code does instead: k has the sign of the claim, and the
\* calendar day of add(b, k, 'month') is not after the calendar day of a,
\* whichever of a and b is the later one
C27_CodeRoundsDownByDay ==
    DiffReturned("month") =>
        /\ NumGe(dateA, dateB) => WholeNumber(answer) >= 0
        /\ NumLe(dateA, dateB) => WholeNumber(answer) <= 0
        /\ LocalDay(MonthsAddedBack) <= LocalDay(dateA)

---------------------------------------------------------------------------
(* C28: the Instant carried by a success *)

\* one of parse, parseISO, parseCustom has returned a success
SuccessReturned ==
    /\ pc = "returned"
    /\ fn \in {"parse", "parseISO", "parseCustom"}
    /\ ~IsThrown(answer)
    /\ answer.success

\* C28: every success returned by parse, parseISO or parseCustom carries a
\* valid Instant: its timestamp is a finite number, never NaN, also for a
\* numeric input to parse that is NaN or outside the range of timestamps.
C28_SuccessIsValid ==
    SuccessReturned => ~IsNaN(answer.value)

\* what the code does instead: a success for a string carries a valid
\* Instant; a success for a number carries new Date(number), valid or not
C28_CodeValidatesStringsOnly ==
    SuccessReturned =>
        IF arg.type = "number" THEN answer.value = NewDate(arg.num)
        ELSE ~IsNaN(answer.value)

---------------------------------------------------------------------------
(* C29: the quantity in the text of toRelative *)

\* the text without its "in " in front or its " ago" behind
RelativeBody(text) ==
    IF Len(text) >= 3 /\ SubSeq(text, 1, 3) = <<"i", "n", " ">>
    THEN SubSeq(text, 4, Len(text))
    ELSE IF Len(text) >= 4 /\ SubSeq(text, Len(text) - 3, Len(text)) = <<" ", "a", "g", "o">>
    THEN SubSeq(text, 1, Len(text) - 4)
    ELSE text

\* the length of the run of digits a text begins with
LeadingDigits(text) ==
    LET runs == {k \in 0..Len(text) : \A i \in 1..k : IsDigit(text[i])}
    IN  CHOOSE k \in runs : \A j \in runs : j <= k

\* the number written in the text, -1 if it does not begin with a number
RelativeQuantity(text) ==
    LET body == RelativeBody(text)
        k == LeadingDigits(body)
    IN  IF k = 0 THEN -1 ELSE ParseInt(SubSeq(body, 1, k))

\* the word after the number, without the s of the plural
RelativeWord(text) ==
    LET body == RelativeBody(text)
        word == SubSeq(body, LeadingDigits(body) + 2, Len(body))
    IN  IF Len(word) > 0 /\ word[Len(word)] = "s"
        THEN SubSeq(word, 1, Len(word) - 1)
        ELSE word

\* the quantities the claim allows for a unit
QuantityAllowed(n, u) ==
    CASE u = "second" -> n \in 10..59
      [] u = "minute" -> n \in 1..59
      [] u = "hour"   -> n \in 1..23
      [] u = "day"    -> n \in 1..6
      [] u = "week"   -> n \in 1..4
      [] u = "month"  -> n \in 1..12
      [] u = "year"   -> n >= 1

\* toRelative has returned its text for a valid date
ToRelativeReturned ==
    pc = "returned" /\ fn = "toRelative" /\ ~dateA.nan /\ ~dateB.nan

\* C29: toRelative never reports a zero quantity: a result other than
\* "just now" names a number n >= 1, within 10..59 for seconds, 1..59 for
\* minutes, 1..23 for hours, 1..6 for days, 1..4 for weeks and 1..12 for
\* months, and a difference of exactly 0 ms yields "just now".
C29_NeverZero ==
    ToRelativeReturned =>
        /\ dateA = dateB => answer = JustNow
        /\ answer # JustNow =>
              /\ RelativeQuantity(answer) >= 1
              /\ \E u \in {"second", "minute", "hour", "day", "week", "month", "year"} :
                    /\ RelativeWord(answer) = RelativeUnitName(u)
                    /\ QuantityAllowed(RelativeQuantity(answer), u)

\* C29 witness: 10 s before the reference is the first distance that is
\* not "just now", and the text names the quantity 10
C29_Witness ==
    /\ ToRelativeReturned
    /\ NumSub(dateB, dateA) = Num(0, 10000)
    /\ answer = <<"1", "0", " ", "s", "e", "c", "o", "n", "d", "s", " ", "a", "g", "o">>
    /\ RelativeQuantity(answer) = 10

===========================================================================
